---------------------------- MODULE Spec2Model ----------------------------
(***************************************************************************)
(* Verification model of the wasmer trap-recovery barrier                  *)
(* (lib/clif-backend/src/signal/unix.rs), of the middleware chain and the  *)
(* compile pipeline (lib/runtime-core/src/codegen.rs), of the Cranelift    *)
(* module code generator (lib/clif-backend/src/code.rs), of the index and  *)
(* native types (lib/runtime-core/src/types.rs), of the code loader        *)
(* (lib/runtime-core/src/loader.rs) and of the interface-types interpreter *)
(* (lib/interface-types/src/interpreter/mod.rs).                           *)
(*                                                                         *)
(* The specifications of this module:                                      *)
(*   SpecTrap    - one thread entering, leaving and trapping inside nested *)
(*                 call_protected regions;                                 *)
(*   SpecChain   - MiddlewareChain::run driving stages and the FCG;        *)
(*   SpecThreads - several threads in call_protected, the Once and the     *)
(*                 thread-local cells;                                     *)
(*   SpecIndex   - local_or_import and convert_up on drawn indices;        *)
(*   SpecMemory  - MemoryDescriptor::memory_type on drawn descriptors;     *)
(*   SpecMcg     - the operations of CraneliftModuleCodeGenerator;         *)
(*   SpecCompile - StreamingCompiler::compile on drawn modules;            *)
(*   SpecLoader  - LocalLoader::load, LocalInstance::call and Drop;        *)
(*   SpecNative  - the native type conversions on drawn values;            *)
(*   SpecInterp  - Interpreter::try_from and Interpreter::run;             *)
(*   SpecCall    - translate_call_indirect and translate_call, and the     *)
(*                 code they emit run on drawn tables;                     *)
(*   SpecFcg     - feed_param, feed_event and finalize of the function     *)
(*                 code generator;                                         *)
(*   SpecMemOp   - translate_memory_grow, translate_memory_size and        *)
(*                 make_heap on drawn memories;                            *)
(*   SpecLocalCall - LocalInstance::call on drawn argument lists.          *)
(***************************************************************************)
EXTENDS Integers, Sequences, FiniteSets, TLC

VARIABLES
    \* ---- signal/unix.rs ----
    SETJMP_BUFFER,        \* thread-local jump buffer: 0 = all zero, d = context saved by frame d
    CAUGHT_ADDRESSES,     \* thread-local <<faulting address, instruction pointer>>
    TRAP_EARLY_DATA,      \* thread-local one-shot slot: "None" or the boxed data
    SIGHANDLER_INIT,      \* the Once: TRUE when install_sighandler has run
    frames,               \* active call_protected frames of the thread, outermost first
    proc,                 \* "running", "aborted", "killed" or "panicked"
    ret,                  \* history: what the call_protected that the last step finished returned
    caught,               \* history: the jump the last step caught, as call_protected saw it
    ev,                   \* history: the last step and the nesting depth it started from
    slot_taken,           \* history: the last catch emptied a set slot and nothing was stored since
    \* ---- codegen.rs ----
    chain,                \* MiddlewareChain.chain: number of stages pushed
    pc,                   \* position inside MiddlewareChain::run
    m,                    \* index of the stage the for loop is at
    prev,                 \* events of `prev` not yet fed to stage m
    sink,                 \* sink.buffer
    fcg,                  \* the Option<&mut FCG> of the current run: TRUE = Some
    nruns,                \* number of run calls started
    result,               \* what the last run returned
    hist,                 \* per-run history of what was fed, pushed and delivered
    \* ---- signal/unix.rs, several threads ----
    once,                 \* state of the Once SIGHANDLER_INIT
    installs,             \* number of times install_sighandler was entered
    tls_buf,              \* SETJMP_BUFFER, one cell per thread-local slot
    tls_addr,             \* CAUGHT_ADDRESSES, one cell per thread-local slot
    tframes,              \* per thread: its active call_protected frames, outermost first
    tpc,                  \* per thread: position inside call_protected
    tprev,                \* per thread: the local prev_jmp_buf of the call being entered
    tproc,                \* the process: "running" or how it ended
    \* ---- types.rs, index spaces ----
    idx_in,               \* the arguments drawn: kind, ModuleInfo import counts, a u32 and a tag
    idx_out,              \* the function applied last and what it returned
    \* ---- types.rs, MemoryDescriptor ----
    mem_in,               \* the MemoryDescriptor drawn
    mem_out,              \* what memory_type did with it
    \* ---- clif-backend/src/code.rs, CraneliftModuleCodeGenerator ----
    module_info,          \* the ModuleInfo of the module being compiled
    mcg,                  \* "live", "finalized" (consumed by finalize) or "panicked"
    signatures,           \* Option<Arc<Map<SigIndex, FuncSig>>>
    clif_signatures,      \* Map<SigIndex, ir::Signature>
    function_signatures,  \* Option<Arc<Map<FuncIndex, SigIndex>>>
    functions,            \* Vec<CraneliftFunctionCodeGenerator>
    mcg_ev,               \* history: the last operation, the state it found and its result
    \* ---- runtime-core/src/codegen.rs, StreamingCompiler::compile ----
    cc_in,                \* the backend of the MCG type and the wasm bytes drawn
    cc_pc,                \* position inside compile
    cc_pos,               \* position of read_module in the module
    cc_log,               \* history: validate, MCG operations and chain runs, in call order
    cc_result,            \* what compile returned
    \* ---- runtime-core/src/loader.rs ----
    inst,                 \* per load call: how far load got and what became of the instance
    code_mem,             \* per load call: the mapping of its CodeMemory
    \* ---- types.rs, NativeWasmType / WasmExternType ----
    nat_in,               \* the type and the value drawn
    nat_out,              \* the conversion applied last and the value it returned
    \* ---- interface-types/src/interpreter/mod.rs ----
    instructions,         \* the instruction list given to try_from
    interpreter,          \* "none", "built", or "panicked" (unimplemented!())
    executable_instructions, \* Interpreter::executable_instructions
    rt_pc,                \* run: 0 = not running, k = about to execute the k-th executable
    rt_stack,             \* runtime.stack of the current (or last) run
    rt_executed,          \* history: the executables the current run has called
    rt_result,            \* what the last run returned
    rt_runs,              \* number of runs started
    \* ---- code.rs, translate_call_indirect / translate_call ----
    cg_in,                \* the call translated and the memory it runs against
    cg_code,              \* the instructions the translator emitted
    cg_pc,                \* 0 = nothing emitted, k = the k-th instruction runs next
    cg_env,               \* the values the emitted instructions have defined
    cg_out,               \* what the instruction executed last did: a trap or the call
    cg_invoked,           \* history: number of times a callee was invoked
    \* ---- code.rs, CraneliftFunctionCodeGenerator ----
    fcg_body,             \* the instructions in self.func
    fcg_state,            \* func_translator.state: reachable, stack, depth of control_stack
    is_unreachable,       \* builder.is_unreachable() of the current block
    next_local,           \* CraneliftFunctionCodeGenerator::next_local
    fcg_live,             \* FALSE once finalize has run
    fcg_ev,               \* history: the last operation and the fields it found
    \* ---- code.rs, make_heap / translate_memory_grow / translate_memory_size ----
    mo_in,                \* the module's memories and the memory index translated
    mo_out,               \* what the translator built: the helper call or the heap preamble
    \* ---- loader.rs, LocalInstance::call ----
    lc_in,                \* the arguments and the function id call is given
    lc_out,               \* how far call got: the invocation or what it returned
    lc_invoked            \* history: number of times loaded code was invoked

trapVars == <<SETJMP_BUFFER, CAUGHT_ADDRESSES, TRAP_EARLY_DATA, SIGHANDLER_INIT,
              frames, proc, ret, caught, ev, slot_taken>>
chainVars == <<chain, pc, m, prev, sink, fcg, nruns, result, hist>>
threadVars == <<once, installs, tls_buf, tls_addr, tframes, tpc, tprev, tproc>>
indexVars == <<idx_in, idx_out>>
memoryVars == <<mem_in, mem_out>>
mcgVars == <<module_info, mcg, signatures, clif_signatures, function_signatures,
             functions, mcg_ev>>
compileVars == <<cc_in, cc_pc, cc_pos, cc_log, cc_result>>
loaderVars == <<inst, code_mem>>
nativeVars == <<nat_in, nat_out>>
interpVars == <<instructions, interpreter, executable_instructions, rt_pc, rt_stack,
                rt_executed, rt_result, rt_runs>>
callVars == <<cg_in, cg_code, cg_pc, cg_env, cg_out, cg_invoked>>
fcgVars == <<fcg_body, fcg_state, is_unreachable, next_local, fcg_live, fcg_ev>>
memOpVars == <<mo_in, mo_out>>
localCallVars == <<lc_in, lc_out, lc_invoked>>
vars ==
    <<trapVars, chainVars, threadVars, indexVars, memoryVars, mcgVars,
      compileVars, loaderVars, nativeVars, interpVars, callVars, fcgVars,
      memOpVars, localCallVars>>

\* What each specification leaves alone.
notTrap ==
    <<chainVars, threadVars, indexVars, memoryVars, mcgVars, compileVars,
      loaderVars, nativeVars, interpVars, callVars, fcgVars, memOpVars,
      localCallVars>>
notChain ==
    <<trapVars, threadVars, indexVars, memoryVars, mcgVars, compileVars,
      loaderVars, nativeVars, interpVars, callVars, fcgVars, memOpVars,
      localCallVars>>
notThreads ==
    <<trapVars, chainVars, indexVars, memoryVars, mcgVars, compileVars,
      loaderVars, nativeVars, interpVars, callVars, fcgVars, memOpVars,
      localCallVars>>
notIndex ==
    <<trapVars, chainVars, threadVars, memoryVars, mcgVars, compileVars,
      loaderVars, nativeVars, interpVars, callVars, fcgVars, memOpVars,
      localCallVars>>
notMemory ==
    <<trapVars, chainVars, threadVars, indexVars, mcgVars, compileVars,
      loaderVars, nativeVars, interpVars, callVars, fcgVars, memOpVars,
      localCallVars>>
notMcg ==
    <<trapVars, chainVars, threadVars, indexVars, memoryVars, compileVars,
      loaderVars, nativeVars, interpVars, callVars, fcgVars, memOpVars,
      localCallVars>>
notCompile ==
    <<trapVars, chainVars, threadVars, indexVars, memoryVars, mcgVars,
      loaderVars, nativeVars, interpVars, callVars, fcgVars, memOpVars,
      localCallVars>>
notLoader ==
    <<trapVars, chainVars, threadVars, indexVars, memoryVars, mcgVars,
      compileVars, nativeVars, interpVars, callVars, fcgVars, memOpVars,
      localCallVars>>
notNative ==
    <<trapVars, chainVars, threadVars, indexVars, memoryVars, mcgVars,
      compileVars, loaderVars, interpVars, callVars, fcgVars, memOpVars,
      localCallVars>>
notInterp ==
    <<trapVars, chainVars, threadVars, indexVars, memoryVars, mcgVars,
      compileVars, loaderVars, nativeVars, callVars, fcgVars, memOpVars,
      localCallVars>>
notCall ==
    <<trapVars, chainVars, threadVars, indexVars, memoryVars, mcgVars,
      compileVars, loaderVars, nativeVars, interpVars, fcgVars, memOpVars,
      localCallVars>>
notFcg ==
    <<trapVars, chainVars, threadVars, indexVars, memoryVars, mcgVars,
      compileVars, loaderVars, nativeVars, interpVars, callVars, memOpVars,
      localCallVars>>
notMemOp ==
    <<trapVars, chainVars, threadVars, indexVars, memoryVars, mcgVars,
      compileVars, loaderVars, nativeVars, interpVars, callVars, fcgVars,
      localCallVars>>
notLocalCall ==
    <<trapVars, chainVars, threadVars, indexVars, memoryVars, mcgVars,
      compileVars, loaderVars, nativeVars, interpVars, callVars, fcgVars,
      memOpVars>>

-----------------------------------------------------------------------------
(* Bounds *)

MaxDepth == 3          \* deepest nesting of call_protected explored
MaxStages == 2         \* longest middleware chain explored
MaxPush == 2           \* most events one feed_event call pushes into the sink
MaxRuns == 2           \* number of MiddlewareChain::run calls explored
MaxSink == 3           \* longest sink.buffer explored
MaxThreads == 2        \* number of threads explored
MaxNest == 2           \* deepest nesting of call_protected per thread, with several threads
MaxImports == 2        \* most imports of one kind in a ModuleInfo
MaxPages == 6          \* largest page count of a MemoryDescriptor explored
MaxFuncs == 2          \* most local functions of a module, and most next_function calls
MaxClif == 4           \* longest clif_signatures explored
MaxLoads == 2           \* number of LocalLoader::load calls explored
MaxInstructions == 2    \* longest instruction list given to try_from
MaxInterpRuns == 2      \* number of Interpreter::run calls explored
MaxTable == 2          \* most entries of the function table
MaxArgs == 2           \* most Wasm arguments of a call
MaxBody == 2           \* most instructions of a function body
MaxStack == 2          \* deepest operand stack
MaxControl == 2        \* deepest control stack
MaxLocals == 2         \* most feed_param calls
MaxMemories == 2       \* most local memories of a module
MaxCallArgs == 3       \* most arguments of LocalInstance::call

-----------------------------------------------------------------------------
(* signal/unix.rs: values *)

\* Signal numbers as Signal::from_c_int reads them on Linux.
SignalNumber == [SIGHUP |-> 1, SIGILL |-> 4, SIGBUS |-> 7, SIGFPE |-> 8, SIGSEGV |-> 11]

\* The four signals install_sighandler registers signal_trap_handler for.
HandledSignals == {"SIGFPE", "SIGILL", "SIGSEGV", "SIGBUS"}

Signal_from_c_int(n) ==
    CASE n = SignalNumber.SIGHUP  -> "SIGHUP"
      [] n = SignalNumber.SIGILL  -> "SIGILL"
      [] n = SignalNumber.SIGBUS  -> "SIGBUS"
      [] n = SignalNumber.SIGFPE  -> "SIGFPE"
      [] n = SignalNumber.SIGSEGV -> "SIGSEGV"
      [] OTHER -> "Err"

\* crate::relocation::TrapCode
ListedTrapCodes ==
    {"StackOverflow", "HeapOutOfBounds", "TableOutOfBounds", "OutOfBounds",
     "IndirectCallToNull", "BadSignature", "IntegerOverflow",
     "IntegerDivisionByZero", "BadConversionToInteger", "UnreachableCodeReached"}
UnlistedTrapCodes == {"Interrupt", "User"}
TrapCodes == ListedTrapCodes \cup UnlistedTrapCodes

\* Instruction pointers: 0 is the null pointer, 1..12 are trap sites of the
\* module (one per TrapCode), 13 is an instruction with no trap record.
TrapSite ==
    [ip \in 1..12 |->
        CASE ip = 1  -> "StackOverflow"
          [] ip = 2  -> "HeapOutOfBounds"
          [] ip = 3  -> "TableOutOfBounds"
          [] ip = 4  -> "OutOfBounds"
          [] ip = 5  -> "IndirectCallToNull"
          [] ip = 6  -> "BadSignature"
          [] ip = 7  -> "IntegerOverflow"
          [] ip = 8  -> "IntegerDivisionByZero"
          [] ip = 9  -> "BadConversionToInteger"
          [] ip = 10 -> "UnreachableCodeReached"
          [] ip = 11 -> "Interrupt"
          [] ip = 12 -> "User"]
InstPtrs == 1..13
FaultAddrs == {16, 255}

\* The HandlerData values a call_protected may be given: the relocation
\* table of the module above, and the table of a module whose code the
\* instruction pointers do not belong to.
HandlerDatas == {"module", "other"}

\* HandlerData::lookup(ip): Some(TrapData{trapcode, ..}) or None.
lookup(handler_data, ip) ==
    IF handler_data = "module" /\ ip \in DOMAIN TrapSite THEN TrapSite[ip] ELSE "None"

EarlyDatas == {"d1", "d2"}

\* format!("{:p}", ptr): "0x" followed by the lower-case hexadecimal digits.
HexDigit(d) ==
    CASE d = 0 -> "0" [] d = 1 -> "1" [] d = 2 -> "2" [] d = 3 -> "3"
      [] d = 4 -> "4" [] d = 5 -> "5" [] d = 6 -> "6" [] d = 7 -> "7"
      [] d = 8 -> "8" [] d = 9 -> "9" [] d = 10 -> "a" [] d = 11 -> "b"
      [] d = 12 -> "c" [] d = 13 -> "d" [] d = 14 -> "e" [] OTHER -> "f"

RECURSIVE HexDigits(_)
HexDigits(n) == IF n < 16 THEN HexDigit(n) ELSE HexDigits(n \div 16) \o HexDigit(n % 16)

FormatPointer(p) == "0x" \o HexDigits(p)

\* Box<dyn Any> payloads of CallProtError.
BoxData(d)          == [tag |-> "Data", v |-> d]
BoxExceptionCode(c) == [tag |-> "ExceptionCode", v |-> c]
BoxString(s)        == [tag |-> "String", v |-> s]

NoRet    == [kind |-> "none", payload |-> BoxString(""), depth |-> 0, entry_buf |-> 0, buf |-> 0]
NoCaught == [via |-> "none", signum |-> 0, early |-> "None", pair |-> <<0, 0>>,
             recorded |-> FALSE, lookup |-> "None", landed |-> 0, after_taken |-> FALSE]


-----------------------------------------------------------------------------
(* signal/unix.rs: call_protected, trigger_trap, do_unwind *)

\* longjmp(env, val) makes the setjmp that filled env return val, and 1 when
\* val is 0.
setjmp_return(val) == IF val = 0 THEN 1 ELSE val

\* get_faulting_addr_and_ip on x86_64: (si_addr, rip) of the fault.
get_faulting_addr_and_ip(si_addr, rip) == <<si_addr, rip>>

\* Mutant: the two call_indirect trap codes share the wrong arm.
TrapCodeToException_Swapped(trapcode) ==
    CASE trapcode \in {"StackOverflow", "HeapOutOfBounds", "OutOfBounds"} ->
            BoxExceptionCode("MemoryOutOfBounds")
      [] trapcode = "TableOutOfBounds" -> BoxExceptionCode("CallIndirectOOB")
      [] trapcode \in {"IndirectCallToNull", "BadSignature"} ->
            BoxExceptionCode("IncorrectCallIndirectSignature")
      [] trapcode \in {"IntegerOverflow", "IntegerDivisionByZero", "BadConversionToInteger"} ->
            BoxExceptionCode("IllegalArithmetic")
      [] trapcode = "UnreachableCodeReached" -> BoxExceptionCode("Unreachable")
      [] OTHER -> BoxString("unknown clif trap code")

\* The match on trapcode under Ok(SIGILL).
TrapCodeToException(trapcode) ==
    CASE trapcode = "StackOverflow"          -> BoxExceptionCode("MemoryOutOfBounds")
      [] trapcode = "HeapOutOfBounds"        -> BoxExceptionCode("MemoryOutOfBounds")
      [] trapcode = "TableOutOfBounds"       -> BoxExceptionCode("CallIndirectOOB")
      [] trapcode = "OutOfBounds"            -> BoxExceptionCode("MemoryOutOfBounds")
      [] trapcode = "IndirectCallToNull"     -> BoxExceptionCode("CallIndirectOOB")
      [] trapcode = "BadSignature"           -> BoxExceptionCode("IncorrectCallIndirectSignature")
      [] trapcode = "IntegerOverflow"        -> BoxExceptionCode("IllegalArithmetic")
      [] trapcode = "IntegerDivisionByZero"  -> BoxExceptionCode("IllegalArithmetic")
      [] trapcode = "BadConversionToInteger" -> BoxExceptionCode("IllegalArithmetic")
      [] trapcode = "UnreachableCodeReached" -> BoxExceptionCode("Unreachable")
      [] OTHER                               -> BoxString("unknown clif trap code")

\* Mutant: the trapcode is translated whatever the signal is.
MatchedTrap_AnySignal(signal, trapcode) ==
    IF signal \in HandledSignals
    THEN [outcome |-> "return", payload |-> TrapCodeToException(trapcode)]
    ELSE [outcome |-> "panic", payload |-> BoxString("not implemented")]

\* The match on the signal when the relocation table has the instruction
\* pointer: the value of the Err, or a panic (unimplemented!).
MatchedTrap(signal, trapcode) ==
    CASE signal = "SIGILL"  -> [outcome |-> "return", payload |-> TrapCodeToException(trapcode)]
      [] signal \in {"SIGSEGV", "SIGBUS"} ->
            [outcome |-> "return", payload |-> BoxExceptionCode("MemoryOutOfBounds")]
      [] signal = "SIGFPE"  ->
            [outcome |-> "return", payload |-> BoxExceptionCode("IllegalArithmetic")]
      [] OTHER -> [outcome |-> "panic", payload |-> BoxString("not implemented")]

\* The name of the signal in the "unknown trap" message.
SignalText(signal) ==
    CASE signal = "SIGFPE"  -> "floating-point exception"
      [] signal = "SIGILL"  -> "illegal instruction"
      [] signal = "SIGSEGV" -> "segmentation violation"
      [] signal = "SIGBUS"  -> "bus error"
      [] signal = "Err"     -> "error while getting the Signal"
      [] OTHER              -> "unknown trapped signal"

\* Mutant: without a relocation entry the signal alone picks the code.
UnmatchedTrap_BySignal(signal, faulting_addr) ==
    CASE signal \in {"SIGSEGV", "SIGBUS"} ->
            [outcome |-> "return", payload |-> BoxExceptionCode("MemoryOutOfBounds")]
      [] signal = "SIGFPE" ->
            [outcome |-> "return", payload |-> BoxExceptionCode("IllegalArithmetic")]
      [] OTHER ->
            [outcome |-> "return",
             payload |-> BoxString("unknown trap at " \o FormatPointer(faulting_addr))]

\* The branch without a relocation entry.
UnmatchedTrap(signal, faulting_addr) ==
    [outcome |-> "return",
     payload |-> BoxString("unknown trap at " \o FormatPointer(faulting_addr)
                           \o " - " \o SignalText(signal))]

\* The branch `signum != 0` of call_protected after the buffer is restored:
\* early is the content taken out of TRAP_EARLY_DATA, addresses the content
\* of CAUGHT_ADDRESSES.
Classify(signum, early, addresses, handler_data) ==
    IF early # "None"
    THEN [outcome |-> "return", payload |-> BoxData(early)]
    ELSE LET faulting_addr == addresses[1]
             inst_ptr      == addresses[2]
             trap          == lookup(handler_data, inst_ptr)
             signal        == Signal_from_c_int(signum)
         IN  IF trap # "None"
             THEN MatchedTrap(signal, trap)
             ELSE UnmatchedTrap(signal, faulting_addr)

\* What the buffer holds after setjmp filled it in the frame at this depth.
setjmp(depth) == depth

\* Mutant: the buffer is left as the finished call's setjmp filled it.
RestoredBuffer_Kept(frame) == frame.ctx

\* The value written back to *jmp_buf when a call_protected ends.
RestoredBuffer(frame) == frame.prev_jmp_buf

\* Mutant: the slot is read with get() and keeps its content.
TakenSlot_Kept == TRAP_EARLY_DATA

\* What TRAP_EARLY_DATA holds after cell.replace(None).
TakenSlot == "None"

\* The jump lands in the setjmp of the frame whose context the buffer
\* holds; that frame's call_protected finishes through its `signum != 0`
\* branch. A buffer that names a frame which has already returned is a
\* jump into a dead stack frame.
Land(val, via, recorded) ==
    LET d == SETJMP_BUFFER IN
    IF d \notin 1..Len(frames)
    THEN /\ proc' = "dangling"
         /\ ret' = NoRet
         /\ caught' = NoCaught
         /\ UNCHANGED <<SETJMP_BUFFER, TRAP_EARLY_DATA, frames, slot_taken>>
    ELSE LET frame  == frames[d]
             signum == setjmp_return(val)
             out    == Classify(signum, TRAP_EARLY_DATA, CAUGHT_ADDRESSES', frame.handler_data)
         IN  /\ SETJMP_BUFFER' = RestoredBuffer(frame)
             /\ TRAP_EARLY_DATA' = TakenSlot
             /\ frames' = SubSeq(frames, 1, d - 1)
             /\ caught' = [via |-> via, signum |-> signum, early |-> TRAP_EARLY_DATA,
                           pair |-> CAUGHT_ADDRESSES', recorded |-> recorded,
                           lookup |-> lookup(frame.handler_data, CAUGHT_ADDRESSES'[2]),
                           landed |-> d, after_taken |-> slot_taken]
             /\ slot_taken' = (TRAP_EARLY_DATA # "None")
             /\ IF out.outcome = "panic"
                THEN /\ proc' = "panicked"
                     /\ ret' = NoRet
                ELSE /\ proc' = proc
                     /\ ret' = [kind |-> "Err", payload |-> out.payload, depth |-> d,
                                entry_buf |-> frame.entry_buf, buf |-> SETJMP_BUFFER']

\* call_protected up to the point where f starts to run: the buffer is
\* copied to prev_jmp_buf, the Once installs the handlers, setjmp fills the
\* buffer and returns 0.
CallProtectedEnter(handler_data) ==
    /\ proc = "running"
    /\ Len(frames) < MaxDepth
    /\ SIGHANDLER_INIT' = TRUE
    /\ SETJMP_BUFFER' = setjmp(Len(frames) + 1)
    /\ frames' = Append(frames, [prev_jmp_buf |-> SETJMP_BUFFER,
                                 handler_data |-> handler_data,
                                 ctx          |-> setjmp(Len(frames) + 1),
                                 entry_buf    |-> SETJMP_BUFFER])
    /\ ret' = NoRet
    /\ caught' = NoCaught
    /\ ev' = [op |-> "enter", depth |-> Len(frames)]
    /\ UNCHANGED <<CAUGHT_ADDRESSES, TRAP_EARLY_DATA, proc, slot_taken>>

\* f returns: the buffer is restored and Ok(ret) returned.
CallProtectedReturn ==
    /\ proc = "running"
    /\ frames # <<>>
    /\ LET frame == frames[Len(frames)] IN
        /\ SETJMP_BUFFER' = RestoredBuffer(frame)
        /\ ret' = [kind |-> "Ok", payload |-> BoxString(""), depth |-> Len(frames),
                   entry_buf |-> frame.entry_buf, buf |-> SETJMP_BUFFER']
    /\ frames' = SubSeq(frames, 1, Len(frames) - 1)
    /\ caught' = NoCaught
    /\ ev' = [op |-> "return", depth |-> Len(frames)]
    /\ UNCHANGED <<CAUGHT_ADDRESSES, TRAP_EARLY_DATA, SIGHANDLER_INIT, proc, slot_taken>>

\* Mutant: do_unwind without the all-zero test.
do_unwind_Unchecked(signum, si_addr, rip) ==
    /\ CAUGHT_ADDRESSES' = get_faulting_addr_and_ip(si_addr, rip)
    /\ Land(signum, "signal", TRUE)

\* do_unwind(signum, siginfo, ucontext): abort on an all-zero buffer, else
\* record the addresses and longjmp with the signal number.
do_unwind(signum, si_addr, rip) ==
    IF SETJMP_BUFFER = 0
    THEN /\ proc' = "aborted"
         /\ ret' = NoRet
         /\ caught' = NoCaught
         /\ UNCHANGED <<SETJMP_BUFFER, CAUGHT_ADDRESSES, TRAP_EARLY_DATA, frames, slot_taken>>
    ELSE /\ CAUGHT_ADDRESSES' = get_faulting_addr_and_ip(si_addr, rip)
         /\ Land(signum, "signal", TRUE)

\* One of the four signals is raised on the thread. With the handlers
\* installed signal_trap_handler runs do_unwind; before that the signal
\* has its default disposition, which ends the process.
RaiseSignal(signal, si_addr, rip) ==
    /\ proc = "running"
    /\ IF SIGHANDLER_INIT
       THEN do_unwind(SignalNumber[signal], si_addr, rip)
       ELSE /\ proc' = "killed"
            /\ ret' = NoRet
            /\ caught' = NoCaught
            /\ UNCHANGED <<SETJMP_BUFFER, CAUGHT_ADDRESSES, TRAP_EARLY_DATA, frames, slot_taken>>
    /\ ev' = [op |-> "signal", depth |-> Len(frames)]
    /\ UNCHANGED SIGHANDLER_INIT

\* trigger_trap(): longjmp(jmp_buf, 0), called by host code that runs
\* inside a protected region.
trigger_trap ==
    /\ proc = "running"
    /\ frames # <<>>
    /\ CAUGHT_ADDRESSES' = CAUGHT_ADDRESSES
    /\ Land(0, "trigger_trap", FALSE)
    /\ ev' = [op |-> "trigger_trap", depth |-> Len(frames)]
    /\ UNCHANGED SIGHANDLER_INIT

\* A host callback stores its data in the one-shot slot.
SetTrapEarlyData(data) ==
    /\ proc = "running"
    /\ frames # <<>>
    /\ TRAP_EARLY_DATA' = data
    /\ ret' = NoRet
    /\ caught' = NoCaught
    /\ ev' = [op |-> "set_early", depth |-> Len(frames)]
    /\ slot_taken' = FALSE
    /\ UNCHANGED <<SETJMP_BUFFER, CAUGHT_ADDRESSES, SIGHANDLER_INIT, frames, proc>>

InitTrap ==
    /\ SETJMP_BUFFER = 0
    /\ CAUGHT_ADDRESSES = <<0, 0>>
    /\ TRAP_EARLY_DATA = "None"
    /\ SIGHANDLER_INIT = FALSE
    /\ frames = <<>>
    /\ proc = "running"
    /\ ret = NoRet
    /\ caught = NoCaught
    /\ ev = [op |-> "none", depth |-> 0]
    /\ slot_taken = FALSE

-----------------------------------------------------------------------------
(* runtime-core/src/codegen.rs: MiddlewareChain *)

\* Errors a stage's feed_event returns (FunctionMiddleware::Error, here a
\* String) and errors the FCG's feed_event returns (a CodegenError, given
\* by its message).
StageErrors == {"limit"}
FcgErrors == {"bad op"}

\* format!("{:?}", x) of a String: the text in double quotes.
DebugString(x) == "\"" \o x \o "\""

\* format!("{:?}", x) of a CodegenError (derived Debug).
DebugCodegenError(x) == "CodegenError { message: " \o DebugString(x) \o " }"

\* An event is known by where it was pushed: the run, the stage that pushed
\* it (0 for the inbound event) and its rank among that stage's pushes.
Event(run, stage, k) == [run |-> run, stage |-> stage, k |-> k]

NoFailure == [at |-> "none", stage |-> 0, err |-> "None"]

NewHist(all) ==
    [fed |-> [i \in 1..chain |-> <<>>],     \* events fed to each stage, in order
     pushed |-> [i \in 1..chain |-> <<>>],  \* events each stage pushed, in order
     stages_done |-> FALSE,                 \* the for loop over the chain ended
     left |-> <<>>,                         \* the sink after the last stage
     delivered |-> <<>>,                    \* events fed to the FCG in this run
     failed |-> NoFailure,                  \* the feed_event that returned an error
     all |-> all]                           \* events fed to the FCG in all runs

\* MiddlewareChain::push: a stage is appended to the chain.
Push ==
    /\ pc = "idle"
    /\ chain < MaxStages
    /\ chain' = chain + 1
    /\ UNCHANGED <<pc, m, prev, sink, fcg, nruns, result, hist>>

\* Mutant: the sink is copied into prev and not emptied.
Drained_Kept(buffer) == buffer

\* What is left in sink.buffer after drain().
Drained(buffer) == <<>>

\* Mutant: the loop pops the buffer from its end.
NextOf_Last(buffer) == Len(buffer)

\* The event a `for ev in ...` loop takes from a buffer.
NextOf(buffer) == 1

\* Mutant: the result of feed_event is dropped.
Leaves_Never(err) == FALSE

\* Whether the `?` on a feed_event result leaves run.
Leaves(err) == err # "None"

\* run returns: its locals are gone.
Return(value, h) ==
    /\ pc' = "idle"
    /\ result' = value
    /\ m' = 0
    /\ prev' = <<>>
    /\ sink' = <<>>
    /\ hist' = h

\* After the for loop over the chain: the FCG, when there is one, is fed
\* the sink; with nothing to feed run returns Ok.
AfterStages(some_fcg, buffer, h) ==
    LET h2 == [h EXCEPT !.stages_done = TRUE, !.left = buffer] IN
    IF some_fcg /\ buffer # <<>>
    THEN /\ pc' = "deliver"
         /\ sink' = buffer
         /\ prev' = <<>>
         /\ m' = 0
         /\ result' = result
         /\ hist' = h2
    ELSE Return("Ok", h2)

\* The for loop starts the stage i: prev takes the sink and the sink is
\* drained. A stage that finds prev empty is fed nothing and the loop goes
\* on, so an empty sink stays empty to the end of the chain.
StartStage(i, some_fcg, buffer, h) ==
    IF i > chain \/ (buffer = <<>> /\ Drained(buffer) = <<>>)
    THEN AfterStages(some_fcg, buffer, h)
    ELSE /\ pc' = "stage"
         /\ m' = i
         /\ prev' = buffer
         /\ sink' = Drained(buffer)
         /\ result' = result
         /\ hist' = h

\* run(fcg, ev, module_info) up to the first feed_event call.
RunStart(some_fcg) ==
    /\ pc = "idle"
    /\ nruns < MaxRuns
    /\ nruns' = nruns + 1
    /\ fcg' = some_fcg
    /\ StartStage(1, some_fcg, <<Event(nruns + 1, 0, 1)>>, NewHist(hist.all))
    /\ UNCHANGED chain

\* Stage m's feed_event is called on the next event of prev: it pushes
\* npush events into the sink (as far as MaxSink lets the sink grow) and
\* returns Ok or an error; the error leaves run with the stage's
\* (stringified) error.
StageFeed(npush, err) ==
    /\ pc = "stage"
    /\ prev # <<>>
    /\ Len(sink) + npush <= MaxSink
    /\ LET i      == NextOf(prev)
           ev_in  == prev[i]
           rest   == SubSeq(prev, 1, i - 1) \o SubSeq(prev, i + 1, Len(prev))
           base   == Len(hist.pushed[m])
           new    == [k \in 1..npush |-> Event(nruns, m, base + k)]
           buffer == sink \o new
           h      == [hist EXCEPT !.fed[m] = Append(@, ev_in),
                                  !.pushed[m] = @ \o new,
                                  !.failed = IF err # "None"
                                             THEN [at |-> "stage", stage |-> m, err |-> err]
                                             ELSE @]
       IN  IF Leaves(err)
           THEN Return(DebugString(err), h)
           ELSE IF rest # <<>>
                THEN /\ prev' = rest
                     /\ sink' = buffer
                     /\ hist' = h
                     /\ UNCHANGED <<pc, m, result>>
                ELSE StartStage(m + 1, fcg, buffer, h)
    /\ UNCHANGED <<chain, fcg, nruns>>

\* The FCG's feed_event is called on the next event of the sink and returns
\* Ok or an error; the error leaves run, stringified.
FcgFeed(err) ==
    /\ pc = "deliver"
    /\ sink # <<>>
    /\ LET i     == NextOf(sink)
           ev_in == sink[i]
           rest  == SubSeq(sink, 1, i - 1) \o SubSeq(sink, i + 1, Len(sink))
           h     == [hist EXCEPT !.delivered = Append(@, ev_in),
                                 !.all = Append(@, ev_in),
                                 !.failed = IF err # "None"
                                            THEN [at |-> "fcg", stage |-> 0,
                                                  err |-> DebugCodegenError(err)]
                                            ELSE @]
       IN  IF Leaves(err)
           THEN Return(DebugCodegenError(err), h)
           ELSE IF rest # <<>>
                THEN /\ sink' = rest
                     /\ hist' = h
                     /\ UNCHANGED <<pc, m, prev, result>>
                ELSE Return("Ok", h)
    /\ UNCHANGED <<chain, fcg, nruns>>

InitChain ==
    /\ chain = 0
    /\ pc = "idle"
    /\ m = 0
    /\ prev = <<>>
    /\ sink = <<>>
    /\ fcg = FALSE
    /\ nruns = 0
    /\ result = "none"
    /\ hist = NewHist(<<>>)

NextChain ==
    \/ Push /\ UNCHANGED notChain
    \/ \E some_fcg \in BOOLEAN : RunStart(some_fcg) /\ UNCHANGED notChain
    \/ \E npush \in 0..MaxPush, err \in {"None"} \cup StageErrors :
          StageFeed(npush, err) /\ UNCHANGED notChain
    \/ \E err \in {"None"} \cup FcgErrors : FcgFeed(err) /\ UNCHANGED notChain

-----------------------------------------------------------------------------
(* signal/unix.rs with several threads: the Once and the thread-local cells *)

Threads == 1..MaxThreads

\* thread_local! gives every thread its own SETJMP_BUFFER and
\* CAUGHT_ADDRESSES: the slot a thread's accesses go to.
thread_local_Shared(t) == 1

\* thread_local! gives every thread its own SETJMP_BUFFER and
\* CAUGHT_ADDRESSES: the slot a thread's accesses go to.
thread_local(t) == t

\* The [0; SETJMP_BUFFER_LEN] a cell starts with.
ZeroBuffer == [thread |-> 0, depth |-> 0]

\* What setjmp stores: the context of frame `depth` on the stack of `t`.
SavedContext(t, depth) == [thread |-> t, depth |-> depth]

\* Instruction pointers and addresses the threads fault at: a trap site of
\* the module and an instruction without a trap record.
ThreadInstPtrs == {10, 13}
ThreadFaultAddr == 16

\* Once::call_once runs its closure when the Once is still incomplete.
OnceRuns_Always(state) == TRUE

\* Once::call_once runs its closure when the Once is still incomplete.
OnceRuns(state) == state = "incomplete"

\* Once::call_once blocks the caller while another thread runs the closure.
OnceBlocks(state) == state = "running"

\* call_protected, lines 70-71: read the thread's buffer into prev_jmp_buf.
BeginCallProtected(t) ==
    /\ tproc = "running"
    /\ tpc[t] = "run"
    /\ Len(tframes[t]) < MaxNest
    /\ tprev' = [tprev EXCEPT ![t] = tls_buf[thread_local(t)]]
    /\ tpc' = [tpc EXCEPT ![t] = "call_once"]
    /\ UNCHANGED <<once, installs, tls_buf, tls_addr, tframes, tproc>>

\* call_protected, lines 73-75: SIGHANDLER_INIT.call_once(..) is reached.
CallOnce(t) ==
    /\ tproc = "running"
    /\ tpc[t] = "call_once"
    /\ IF OnceRuns(once)
       THEN /\ once' = "running"
            /\ installs' = installs + 1
            /\ tpc' = [tpc EXCEPT ![t] = "install"]
       ELSE /\ ~OnceBlocks(once)
            /\ tpc' = [tpc EXCEPT ![t] = "setjmp"]
            /\ UNCHANGED <<once, installs>>
    /\ UNCHANGED <<tls_buf, tls_addr, tframes, tprev, tproc>>

\* install_sighandler has registered the four handlers and call_once returns.
InstallSighandler(t) ==
    /\ tproc = "running"
    /\ tpc[t] = "install"
    /\ once' = "complete"
    /\ tpc' = [tpc EXCEPT ![t] = "setjmp"]
    /\ UNCHANGED <<installs, tls_buf, tls_addr, tframes, tprev, tproc>>

\* call_protected, line 77: setjmp returns 0 and the closure starts.
Setjmp(t, handler_data) ==
    /\ tproc = "running"
    /\ tpc[t] = "setjmp"
    /\ tls_buf' = [tls_buf EXCEPT ![thread_local(t)] = SavedContext(t, Len(tframes[t]) + 1)]
    /\ tframes' = [tframes EXCEPT ![t] =
                      Append(@, [prev_jmp_buf |-> tprev[t], handler_data |-> handler_data])]
    /\ tpc' = [tpc EXCEPT ![t] = "run"]
    /\ UNCHANGED <<once, installs, tls_addr, tprev, tproc>>

\* call_protected, lines 130-134: the closure returned, the buffer is restored.
ClosureReturns(t) ==
    /\ tproc = "running"
    /\ tpc[t] = "run"
    /\ tframes[t] # <<>>
    /\ tls_buf' = [tls_buf EXCEPT ![thread_local(t)] =
                      tframes[t][Len(tframes[t])].prev_jmp_buf]
    /\ tframes' = [tframes EXCEPT ![t] = SubSeq(@, 1, Len(@) - 1)]
    /\ UNCHANGED <<once, installs, tls_addr, tpc, tprev, tproc>>

\* longjmp(buf, val) executed by thread t, and the setjmp branch of the
\* call_protected it lands in (lines 77-128).  A jump into a frame that is
\* not the innermost one of t is undefined behaviour: the process is left in
\* "crossed" (a frame of another thread) or "dangling" (a frame that is gone).
ThreadLand(t, buf, val, addresses) ==
    IF buf.thread # t
    THEN /\ tproc' = "crossed"
         /\ UNCHANGED <<tls_buf, tframes>>
    ELSE IF buf.depth # Len(tframes[t])
    THEN /\ tproc' = "dangling"
         /\ UNCHANGED <<tls_buf, tframes>>
    ELSE LET frame == tframes[t][buf.depth]
             out == Classify(setjmp_return(val), "None", addresses, frame.handler_data)
         IN  /\ tls_buf' = [tls_buf EXCEPT ![thread_local(t)] = frame.prev_jmp_buf]
             /\ tframes' = [tframes EXCEPT ![t] = SubSeq(@, 1, buf.depth - 1)]
             /\ tproc' = IF out.outcome = "panic" THEN "panicked" ELSE tproc

\* A synchronous fault of thread t: the kernel runs signal_trap_handler on
\* that thread when the handler is registered, and kills the process when
\* it is not.  While install_sighandler is running either may be the case.
ThreadFault(t, signal, rip, registered) ==
    /\ tproc = "running"
    /\ tpc[t] = "run"
    /\ registered \in (IF once = "running" THEN BOOLEAN ELSE {once = "complete"})
    /\ IF ~registered
       THEN /\ tproc' = "killed"
            /\ UNCHANGED <<tls_buf, tls_addr, tframes>>
       ELSE LET buf == tls_buf[thread_local(t)]
                pair == get_faulting_addr_and_ip(ThreadFaultAddr, rip)
            IN  IF buf = ZeroBuffer
                THEN /\ tproc' = "aborted"
                     /\ UNCHANGED <<tls_buf, tls_addr, tframes>>
                ELSE /\ tls_addr' = [tls_addr EXCEPT ![thread_local(t)] = pair]
                     /\ ThreadLand(t, buf, SignalNumber[signal], pair)
    /\ UNCHANGED <<once, installs, tpc, tprev>>

\* trigger_trap called by the closure running on thread t.
ThreadTriggerTrap(t) ==
    /\ tproc = "running"
    /\ tpc[t] = "run"
    /\ tframes[t] # <<>>
    /\ ThreadLand(t, tls_buf[thread_local(t)], 0, tls_addr[thread_local(t)])
    /\ UNCHANGED <<once, installs, tls_addr, tpc, tprev>>

InitThreads ==
    /\ once = "incomplete"
    /\ installs = 0
    /\ tls_buf = [slot \in Threads |-> ZeroBuffer]
    /\ tls_addr = [slot \in Threads |-> <<0, 0>>]
    /\ tframes = [t \in Threads |-> <<>>]
    /\ tpc = [t \in Threads |-> "run"]
    /\ tprev = [t \in Threads |-> ZeroBuffer]
    /\ tproc = "running"

NextThreads ==
    \/ \E t \in Threads : BeginCallProtected(t) /\ UNCHANGED notThreads
    \/ \E t \in Threads : CallOnce(t) /\ UNCHANGED notThreads
    \/ \E t \in Threads : InstallSighandler(t) /\ UNCHANGED notThreads
    \/ \E t \in Threads : Setjmp(t, "module") /\ UNCHANGED notThreads
    \/ \E t \in Threads : ClosureReturns(t) /\ UNCHANGED notThreads
    \/ \E t \in Threads, signal \in HandledSignals, rip \in ThreadInstPtrs, registered \in BOOLEAN :
          ThreadFault(t, signal, rip, registered) /\ UNCHANGED notThreads
    \/ \E t \in Threads : ThreadTriggerTrap(t) /\ UNCHANGED notThreads

-----------------------------------------------------------------------------
(* runtime-core/src/types.rs: the index spaces *)

\* A u32 is kept at its width as two 16-bit limbs.
Word == 2^16
U32(hi, lo) == [hi |-> hi, lo |-> lo]

\* usize comparison of two values in u32 range.
LessThan(a, b) == a.hi < b.hi \/ (a.hi = b.hi /\ a.lo < b.lo)

\* (a + b) as u32: the usize sum, truncated to 32 bits.
AddAsU32(a, b) ==
    LET lo == a.lo + b.lo
        hi == a.hi + b.hi + (lo \div Word)
    IN  U32(hi % Word, lo % Word)

\* a - b in usize, for a >= b.
Minus(a, b) ==
    LET borrow == IF a.lo < b.lo THEN 1 ELSE 0
    IN  U32(a.hi - b.hi - borrow, (a.lo + Word * borrow) - b.lo)

\* index as u32, for an index in u32 range.
AsU32(a) == U32(a.hi % Word, a.lo % Word)

\* FuncIndex / MemoryIndex / TableIndex / GlobalIndex and the field of
\* ModuleInfo the macro reads for each.
Kinds == {"imported_functions", "imported_memories", "imported_tables", "imported_globals"}

Combined(i) == [tag |-> "Combined", index |-> i]
Local(i)    == [tag |-> "Local", index |-> i]
Import(i)   == [tag |-> "Import", index |-> i]

\* $ty::local_or_import
local_or_import_Inclusive(self, info, kind) ==
    IF ~LessThan(info[kind], self.index)
    THEN Import(AsU32(self.index))
    ELSE Local(AsU32(Minus(self.index, info[kind])))

\* $ty::local_or_import
local_or_import(self, info, kind) ==
    IF LessThan(self.index, info[kind])
    THEN Import(AsU32(self.index))
    ELSE Local(AsU32(Minus(self.index, info[kind])))

\* $local_ty::convert_up and $imported_ty::convert_up
convert_up(self, info, kind) ==
    IF self.tag = "Local"
    THEN Combined(AddAsU32(self.index, info[kind]))
    ELSE Combined(AsU32(self.index))

\* The u32 values and ModuleInfos the functions are applied to.
Limbs == {0, 1, 2, Word - 1}
IndexValues == {U32(hi, lo) : hi \in Limbs, lo \in Limbs}
ImportCounts == {U32(0, n) : n \in 0..MaxImports}
ModuleInfos == [Kinds -> ImportCounts]
IndexInputs == [kind : Kinds, info : ModuleInfos, x : IndexValues, tag : {"Local", "Import"}]

NoIndexOutput == [op |-> "none", val |-> Combined(U32(0, 0))]

ApplyLocalOrImport ==
    /\ idx_out.op = "none"
    /\ idx_out' = [op |-> "local_or_import",
                   val |-> local_or_import(Combined(idx_in.x), idx_in.info, idx_in.kind)]
    /\ UNCHANGED idx_in

ApplyConvertUp ==
    /\ idx_out.op = "none"
    /\ idx_out' = [op |-> "convert_up",
                   val |-> convert_up([tag |-> idx_in.tag, index |-> idx_in.x],
                                      idx_in.info, idx_in.kind)]
    /\ UNCHANGED idx_in

\* convert_up applied to what local_or_import returned.
ApplyUpOfProjection ==
    /\ idx_out.op = "local_or_import"
    /\ idx_out' = [op |-> "up_of_projection",
                   val |-> convert_up(idx_out.val, idx_in.info, idx_in.kind)]
    /\ UNCHANGED idx_in

\* local_or_import applied to what convert_up returned.
ApplyProjectionOfUp ==
    /\ idx_out.op = "convert_up"
    /\ idx_out' = [op |-> "projection_of_up",
                   val |-> local_or_import(idx_out.val, idx_in.info, idx_in.kind)]
    /\ UNCHANGED idx_in

IdleIndex ==
    /\ idx_in = [kind |-> "imported_functions",
                 info |-> [k \in Kinds |-> U32(0, 0)], x |-> U32(0, 0), tag |-> "Local"]
    /\ idx_out = NoIndexOutput

DrawIndex ==
    /\ idx_in \in IndexInputs
    /\ idx_out = NoIndexOutput

NextIndex ==
    \/ ApplyLocalOrImport /\ UNCHANGED notIndex
    \/ ApplyConvertUp /\ UNCHANGED notIndex
    \/ ApplyUpOfProjection /\ UNCHANGED notIndex
    \/ ApplyProjectionOfUp /\ UNCHANGED notIndex

-----------------------------------------------------------------------------
(* runtime-core/src/types.rs: MemoryDescriptor *)

\* Option<Pages>
None == [some |-> FALSE, pages |-> 0]
Some(pages) == [some |-> TRUE, pages |-> pages]

\* Option::is_some
is_some_NonZero(option) == option.some /\ option.pages > 0

\* Option::is_some
is_some(option) == option.some

\* MemoryDescriptor::memory_type
memory_type(self) ==
    CASE  is_some(self.maximum) /\  self.shared -> [outcome |-> "return", ty |-> "SharedStatic"]
      []  is_some(self.maximum) /\ ~self.shared -> [outcome |-> "return", ty |-> "Static"]
      [] ~is_some(self.maximum) /\ ~self.shared -> [outcome |-> "return", ty |-> "Dynamic"]
      [] ~is_some(self.maximum) /\  self.shared ->
             [outcome |-> "panic", ty |-> "shared memory without a max is not allowed"]

PageCounts == 0..MaxPages
MemoryDescriptors ==
    [minimum : PageCounts, maximum : {None} \cup {Some(p) : p \in PageCounts}, shared : BOOLEAN]

NoMemoryOutput == [outcome |-> "none", ty |-> ""]

ApplyMemoryType ==
    /\ mem_out = NoMemoryOutput
    /\ mem_out' = memory_type(mem_in)
    /\ UNCHANGED mem_in

IdleMemory ==
    /\ mem_in = [minimum |-> 0, maximum |-> None, shared |-> FALSE]
    /\ mem_out = NoMemoryOutput

DrawMemory ==
    /\ mem_in \in MemoryDescriptors
    /\ mem_out = NoMemoryOutput

NextMemory == ApplyMemoryType /\ UNCHANGED notMemory

-----------------------------------------------------------------------------
(* clif-backend/src/code.rs: CraneliftModuleCodeGenerator *)

\* The signature tables feed_signatures is given.
SigTables ==
    {<<[params |-> <<>>, returns |-> <<>>]>>,
     <<[params |-> <<>>, returns |-> <<>>], [params |-> <<"I32", "F64">>, returns |-> <<"I64">>]>>}

\* Converter(Type) -> ir::Type
ConvertType(ty) ==
    CASE ty = "I32" -> "i32"
      [] ty = "I64" -> "i64"
      [] ty = "F32" -> "f32"
      [] ty = "F64" -> "f64"

\* convert_func_sig
convert_func_sig(sig) ==
    [params  |-> [i \in 1..Len(sig.params)  |-> ConvertType(sig.params[i])],
     returns |-> [i \in 1..Len(sig.returns) |-> ConvertType(sig.returns[i])],
     call_conv |-> "default"]

\* Map indexing, which panics out of range: Maps are kept as sequences, the
\* entry of index i at position i + 1.
InMap(map, i) == i + 1 \in 1..Len(map)
MapAt(map, i) == map[i + 1]

\* The ModuleInfos explored, those of validated modules: a signature table,
\* n imported functions bound to signature 0, followed by local functions
\* bound to signatures of the table.
RECURSIVE AssocsOf(_, _)
AssocsOf(len, sigs) ==
    IF len = 0 THEN {<<>>}
    ELSE {Append(a, sig) : a \in AssocsOf(len - 1, sigs), sig \in 0..(Len(sigs) - 1)}
McgModuleInfosOf(sigs) ==
    {[signatures |-> sigs,
      imported_functions |-> U32(0, n),
      func_assoc |-> [i \in 1..n |-> 0] \o locals] :
        n \in 0..MaxImports,
        locals \in UNION {AssocsOf(len, sigs) : len \in 0..MaxFuncs}}
McgModuleInfos == UNION {McgModuleInfosOf(sigs) : sigs \in SigTables}

OptionNone == [some |-> FALSE, v |-> <<>>]
OptionSome(v) == [some |-> TRUE, v |-> v]

NoFcg == [name |-> -1, signature |-> convert_func_sig([params |-> <<>>, returns |-> <<>>])]

\* What an operation found: the fields of the generator before it ran.
Found ==
    [signatures |-> signatures.some, function_signatures |-> function_signatures.some,
     functions |-> Len(functions)]

McgEvent(op, res, fcg_returned, func_bodies) ==
    [op |-> op, result |-> res, found |-> Found, fcg |-> fcg_returned,
     func_bodies |-> func_bodies]

\* CraneliftModuleCodeGenerator::feed_signatures
FeedSignatures(sigs) ==
    /\ mcg = "live"
    /\ Len(clif_signatures) + Len(sigs) <= MaxClif
    /\ signatures' = OptionSome(sigs)
    /\ clif_signatures' = clif_signatures \o [i \in 1..Len(sigs) |-> convert_func_sig(sigs[i])]
    /\ mcg_ev' = McgEvent("feed_signatures", "Ok", NoFcg, <<>>)
    /\ UNCHANGED <<module_info, mcg, function_signatures, functions>>

\* CraneliftModuleCodeGenerator::feed_function_signatures
FeedFunctionSignatures(assoc) ==
    /\ mcg = "live"
    /\ function_signatures' = OptionSome(assoc)
    /\ mcg_ev' = McgEvent("feed_function_signatures", "Ok", NoFcg, <<>>)
    /\ UNCHANGED <<module_info, mcg, signatures, clif_signatures, functions>>

\* CraneliftModuleCodeGenerator::feed_import_function
FeedImportFunction ==
    /\ mcg = "live"
    /\ mcg_ev' = McgEvent("feed_import_function", "Ok", NoFcg, <<>>)
    /\ UNCHANGED <<module_info, mcg, signatures, clif_signatures, function_signatures,
                   functions>>

\* LocalFuncIndex::new(self.functions.len())
NextLocalFuncIndex_Shifted(generators) == Local(AsU32(U32(0, Len(generators) + 1)))

\* LocalFuncIndex::new(self.functions.len())
NextLocalFuncIndex(generators) == Local(AsU32(U32(0, Len(generators))))

\* generate_signature: the clif signature with the VMContext parameter put first.
generate_signature_Last(clif_sig_index) ==
    LET signature == MapAt(clif_signatures, clif_sig_index)
    IN  [signature EXCEPT !.params = @ \o <<"vmctx">>]

\* generate_signature: the clif signature with the VMContext parameter put first.
generate_signature(clif_sig_index) ==
    LET signature == MapAt(clif_signatures, clif_sig_index)
    IN  [signature EXCEPT !.params = <<"vmctx">> \o @]

\* CraneliftModuleCodeGenerator::next_function
NextFunction ==
    /\ mcg = "live"
    /\ Len(functions) < MaxFuncs
    /\ LET func_index == NextLocalFuncIndex(functions)
           combined == convert_up(func_index, module_info, "imported_functions").index.lo
       IN  IF InMap(module_info.func_assoc, combined)
              /\ InMap(clif_signatures, MapAt(module_info.func_assoc, combined))
           THEN LET func_env ==
                        [name |-> func_index.index.lo,
                         signature |-> generate_signature(MapAt(module_info.func_assoc, combined))]
                IN  /\ functions' = Append(functions, func_env)
                    /\ mcg_ev' = McgEvent("next_function", "Ok", func_env, <<>>)
                    /\ UNCHANGED mcg
           ELSE /\ mcg' = "panicked"
                /\ mcg_ev' = McgEvent("next_function", "panic", NoFcg, <<>>)
                /\ UNCHANGED functions
    /\ UNCHANGED <<module_info, signatures, clif_signatures, function_signatures>>

\* The order in which finalize pushes the bodies into func_bodies.
FuncBodies(generators) == [i \in 1..Len(generators) |-> generators[i]]

\* FunctionEnvironment::get_func_type
get_func_type(func_index) == MapAt(module_info.func_assoc, func_index)

\* FunctionEnvironment::make_indirect_sig, called while a function is translated
MakeIndirectSig(clif_sig_index) ==
    /\ mcg = "live"
    /\ functions # <<>>
    /\ InMap(clif_signatures, clif_sig_index)
    /\ mcg_ev' = McgEvent("make_indirect_sig", "Ok",
                          [name |-> clif_sig_index,
                           signature |-> generate_signature(clif_sig_index)], <<>>)
    /\ UNCHANGED <<module_info, mcg, signatures, clif_signatures, function_signatures,
                   functions>>

\* FunctionEnvironment::make_direct_func, called while a function is translated
MakeDirectFunc(func_index) ==
    /\ mcg = "live"
    /\ functions # <<>>
    /\ InMap(module_info.func_assoc, func_index)
    /\ InMap(clif_signatures, get_func_type(func_index))
    /\ mcg_ev' = McgEvent("make_direct_func", "Ok",
                          [name |-> func_index,
                           signature |-> generate_signature(get_func_type(func_index))],
                          <<>>)
    /\ UNCHANGED <<module_info, mcg, signatures, clif_signatures, function_signatures,
                   functions>>

\* CraneliftModuleCodeGenerator::finalize: the bodies go to
\* FuncResolverBuilder::new, which compiles them and may fail.
Finalize(backend_ok) ==
    /\ mcg = "live"
    /\ mcg' = "finalized"
    /\ mcg_ev' = McgEvent("finalize", IF backend_ok THEN "Ok" ELSE "Err", NoFcg,
                          FuncBodies(functions))
    /\ UNCHANGED <<module_info, signatures, clif_signatures, function_signatures, functions>>

NoMcgEvent ==
    [op |-> "new", result |-> "Ok",
     found |-> [signatures |-> FALSE, function_signatures |-> FALSE, functions |-> 0],
     fcg |-> NoFcg, func_bodies |-> <<>>]

\* CraneliftModuleCodeGenerator::new
NewMcg ==
    /\ mcg = "live"
    /\ signatures = OptionNone
    /\ clif_signatures = <<>>
    /\ function_signatures = OptionNone
    /\ functions = <<>>
    /\ mcg_ev = NoMcgEvent

IdleMcg ==
    /\ module_info = [signatures |-> <<>>, imported_functions |-> U32(0, 0),
                      func_assoc |-> <<>>]
    /\ NewMcg

DrawMcg ==
    /\ module_info \in McgModuleInfos
    /\ NewMcg

NextMcg ==
    \/ \E sigs \in {module_info.signatures} : FeedSignatures(sigs) /\ UNCHANGED notMcg
    \/ \E assoc \in {module_info.func_assoc, <<>>} :
          FeedFunctionSignatures(assoc) /\ UNCHANGED notMcg
    \/ FeedImportFunction /\ UNCHANGED notMcg
    \/ NextFunction /\ UNCHANGED notMcg
    \/ \E s \in 0..(Len(module_info.signatures) - 1) : MakeIndirectSig(s) /\ UNCHANGED notMcg
    \/ \E f \in 0..(Len(module_info.func_assoc) - 1) : MakeDirectFunc(f) /\ UNCHANGED notMcg
    \/ \E backend_ok \in BOOLEAN : Finalize(backend_ok) /\ UNCHANGED notMcg

-----------------------------------------------------------------------------
(* runtime-core/src/codegen.rs: StreamingCompiler::compile *)

Backends == {"Cranelift", "LLVM", "Singlepass"}

\* requires_pre_validation
requires_pre_validation_None(backend) ==
    CASE backend = "Cranelift" -> FALSE
      [] backend = "LLVM" -> FALSE
      [] backend = "Singlepass" -> FALSE

\* requires_pre_validation
requires_pre_validation(backend) ==
    CASE backend = "Cranelift" -> TRUE
      [] backend = "LLVM" -> FALSE
      [] backend = "Singlepass" -> FALSE

\* What read_module does with a module of n imported and k defined
\* functions: the MCG operations and chain runs, in order.
RECURSIVE Repeat(_, _)
Repeat(ops, times) == IF times = 0 THEN <<>> ELSE ops \o Repeat(ops, times - 1)
ModuleStream(wasm) ==
    <<"feed_signatures", "feed_function_signatures">>
    \o Repeat(<<"feed_import_function">>, wasm.imports)
    \o Repeat(<<"next_function", "chain.run">>, wasm.funcs)

\* The wasm binaries explored: error_at = 0 is a valid module, error_at = p
\* one in which the parser meets an error where item p of the module would
\* be (one past the last item: in what follows the code).
WasmOf(imports, funcs) ==
    {[imports |-> imports, funcs |-> funcs, error_at |-> e] :
        e \in 0..(Len(ModuleStream([imports |-> imports, funcs |-> funcs])) + 1)}
Wasms == UNION {WasmOf(imports, funcs) : imports \in 0..MaxImports, funcs \in 0..MaxFuncs}

\* validate: the parser is read to EndWasm or to its first error.
validate(wasm) == IF wasm.error_at = 0 THEN "Ok" ELSE "ValidationError"

\* compile, lines 182-184: the pre-validation pass.
PreValidate ==
    /\ cc_pc = "compile"
    /\ IF requires_pre_validation(cc_in.backend)
       THEN /\ cc_log' = Append(cc_log, "validate")
            /\ IF validate(cc_in.wasm) = "Ok"
               THEN cc_pc' = "new" /\ UNCHANGED cc_result
               ELSE cc_pc' = "done" /\ cc_result' = validate(cc_in.wasm)
       ELSE /\ cc_pc' = "new"
            /\ UNCHANGED <<cc_log, cc_result>>
    /\ UNCHANGED <<cc_in, cc_pos>>

\* compile, lines 186-187: MCG::new() and the middleware chain generator.
NewMcgAndChain ==
    /\ cc_pc = "new"
    /\ cc_log' = cc_log \o <<"new", "middleware_chain_generator">>
    /\ cc_pc' = "read_module"
    /\ cc_pos' = 1
    /\ UNCHANGED <<cc_in, cc_result>>

\* compile, lines 188-194: one step of read_module, which feeds the MCG and
\* runs the chain until the module ends or the parser reports an error.
ReadModuleStep ==
    /\ cc_pc = "read_module"
    /\ IF cc_in.wasm.error_at = cc_pos
       THEN /\ cc_pc' = "done"
            /\ cc_result' = "ValidationError"
            /\ UNCHANGED <<cc_log, cc_pos>>
       ELSE IF cc_pos > Len(ModuleStream(cc_in.wasm))
       THEN /\ cc_pc' = "finalize"
            /\ UNCHANGED <<cc_log, cc_pos, cc_result>>
       ELSE /\ cc_log' = Append(cc_log, ModuleStream(cc_in.wasm)[cc_pos])
            /\ cc_pos' = cc_pos + 1
            /\ UNCHANGED <<cc_pc, cc_result>>
    /\ UNCHANGED cc_in

\* compile, lines 195-204: mcg.finalize, its error mapped to InternalError.
FinalizeMcg(backend_ok) ==
    /\ cc_pc = "finalize"
    /\ cc_log' = Append(cc_log, "finalize")
    /\ cc_result' = IF backend_ok THEN "Ok" ELSE "InternalError"
    /\ cc_pc' = "done"
    /\ UNCHANGED <<cc_in, cc_pos>>

StartCompile ==
    /\ cc_pc = "compile"
    /\ cc_pos = 0
    /\ cc_log = <<>>
    /\ cc_result = "none"

IdleCompile ==
    /\ cc_in = [backend |-> "Cranelift", wasm |-> [imports |-> 0, funcs |-> 0, error_at |-> 0]]
    /\ StartCompile

DrawCompile ==
    /\ cc_in \in [backend : Backends, wasm : Wasms]
    /\ StartCompile

NextCompile ==
    \/ PreValidate /\ UNCHANGED notCompile
    \/ NewMcgAndChain /\ UNCHANGED notCompile
    \/ ReadModuleStep /\ UNCHANGED notCompile
    \/ \E backend_ok \in BOOLEAN : FinalizeMcg(backend_ok) /\ UNCHANGED notCompile

-----------------------------------------------------------------------------
(* runtime-core/src/loader.rs: LocalLoader, LocalInstance, CodeMemory *)

Loads == 1..MaxLoads

PageSize == 4096

\* round_up_to_page_size: (size + (4096 - 1)) & !(4096 - 1)
round_up_to_page_size(size) == ((size + (PageSize - 1)) \div PageSize) * PageSize

\* What rm.get_code() hands out: None, or code of some length.
CodeLengths == {0, 1, PageSize, PageSize + 1}
Codes == {[some |-> FALSE, len |-> 0]} \cup {[some |-> TRUE, len |-> len] : len \in CodeLengths}

NoMapping == [prot |-> "none", size |-> 0, copied |-> 0, unmaps |-> 0, late_write |-> FALSE]

\* mmap(null, size, PROT_READ | PROT_WRITE, MAP_PRIVATE | MAP_ANON, -1, 0)
mmap(size) == [prot |-> "RW", size |-> size, copied |-> 0, unmaps |-> 0, late_write |-> FALSE]

\* mprotect(ptr, size, PROT_READ | PROT_EXEC)
mprotect_Skipped(mapping) == mapping

\* mprotect(ptr, size, PROT_READ | PROT_EXEC)
mprotect(mapping) == [mapping EXCEPT !.prot = "RX"]

\* Drop for CodeMemory: munmap(ptr, size)
munmap(mapping) == [mapping EXCEPT !.prot = "unmapped", !.unmaps = @ + 1]

\* load, lines 45-46: rm.get_code().unwrap() and CodeMemory::new(code.len()).
\* mmap fails for a length of zero and may fail for want of memory.
LoadNew(i, code, mmap_ok) ==
    /\ inst[i] = "none"
    /\ IF ~code.some
       THEN inst' = [inst EXCEPT ![i] = "panicked"] /\ UNCHANGED code_mem
       ELSE LET size == round_up_to_page_size(code.len)
            IN  IF size = 0 \/ ~mmap_ok
                THEN inst' = [inst EXCEPT ![i] = "panicked"] /\ UNCHANGED code_mem
                ELSE /\ inst' = [inst EXCEPT ![i] = "mapped"]
                     /\ code_mem' = [code_mem EXCEPT ![i] = [mmap(size) EXCEPT !.copied = code.len]]

\* load, line 47: code_mem[..code.len()].copy_from_slice(code).  `copied`
\* holds the length still to copy until this step, the length copied after.
LoadCopy(i) ==
    /\ inst[i] = "mapped"
    /\ inst' = [inst EXCEPT ![i] = "copied"]
    /\ code_mem' = [code_mem EXCEPT ![i].late_write = code_mem[i].prot # "RW"]

\* load, line 48: code_mem.make_executable(); a failing mprotect panics and
\* the unwinding drops code_mem.
LoadMakeExecutable(i, mprotect_ok) ==
    /\ inst[i] = "copied"
    /\ IF mprotect_ok
       THEN /\ inst' = [inst EXCEPT ![i] = "executable"]
            /\ code_mem' = [code_mem EXCEPT ![i] = mprotect(@)]
       ELSE /\ inst' = [inst EXCEPT ![i] = "panicked"]
            /\ code_mem' = [code_mem EXCEPT ![i] = munmap(@)]

\* load, lines 50-53: the LocalInstance is built and returned;
\* rm.get_offsets().unwrap() panics on None and code_mem is dropped.
LoadReturn(i, offsets_some) ==
    /\ inst[i] = "executable"
    /\ IF offsets_some
       THEN inst' = [inst EXCEPT ![i] = "live"] /\ UNCHANGED code_mem
       ELSE /\ inst' = [inst EXCEPT ![i] = "panicked"]
            /\ code_mem' = [code_mem EXCEPT ![i] = munmap(@)]

\* LocalInstance::call up to the jump into the code: more than five
\* arguments return Err("too many arguments") without calling.
CallInstance(i, nargs) ==
    /\ inst[i] = "live"
    /\ inst' = [inst EXCEPT ![i] = IF nargs <= 5 THEN "calling" ELSE "live"]
    /\ UNCHANGED code_mem

\* The called function returns and call returns Ok.
CallReturns(i) ==
    /\ inst[i] = "calling"
    /\ inst' = [inst EXCEPT ![i] = "live"]
    /\ UNCHANGED code_mem

\* The owner drops the LocalInstance, which it cannot do while call holds
\* its &mut self: Drop for CodeMemory runs.
DropInstance(i) ==
    /\ inst[i] = "live"
    /\ inst' = [inst EXCEPT ![i] = "dropped"]
    /\ code_mem' = [code_mem EXCEPT ![i] = munmap(@)]

InitLoader ==
    /\ inst = [i \in Loads |-> "none"]
    /\ code_mem = [i \in Loads |-> NoMapping]

NextLoader ==
    \/ \E i \in Loads, code \in Codes, mmap_ok \in BOOLEAN :
          LoadNew(i, code, mmap_ok) /\ UNCHANGED notLoader
    \/ \E i \in Loads : LoadCopy(i) /\ UNCHANGED notLoader
    \/ \E i \in Loads, mprotect_ok \in BOOLEAN : LoadMakeExecutable(i, mprotect_ok) /\ UNCHANGED notLoader
    \/ \E i \in Loads, offsets_some \in BOOLEAN : LoadReturn(i, offsets_some) /\ UNCHANGED notLoader
    \/ \E i \in Loads, nargs \in {0, 5, 6} : CallInstance(i, nargs) /\ UNCHANGED notLoader
    \/ \E i \in Loads : CallReturns(i) /\ UNCHANGED notLoader
    \/ \E i \in Loads : DropInstance(i) /\ UNCHANGED notLoader

-----------------------------------------------------------------------------
(* runtime-core/src/types.rs: NativeWasmType and WasmExternType *)

\* Integers are kept at their width: an unsigned value is its sequence of
\* 16-bit limbs, lowest first; a signed value is a sign and a magnitude; a
\* float is its bit pattern.
Zeros(n) == [i \in 1..n |-> 0]
RECURSIVE Inc(_)
Inc(limbs) ==
    IF limbs = <<>> THEN <<>>
    ELSE IF Head(limbs) = Word - 1 THEN <<0>> \o Inc(Tail(limbs))
    ELSE <<Head(limbs) + 1>> \o Tail(limbs)

\* Two's complement negation, modulo 2^(16 * Len(limbs)).
Negate(limbs) == Inc([i \in 1..Len(limbs) |-> (Word - 1) - limbs[i]])

TopBit(limbs) == limbs[Len(limbs)] >= Word \div 2

\* `x as u64` for a signed x of n limbs: x modulo 2^64.
SignedAsU64(x) ==
    LET wide == x.mag \o Zeros(4 - Len(x.mag))
    IN  IF x.neg THEN Negate(wide) ELSE wide

\* `bits as i32` (n = 2) and `bits as i64` (n = 4): the low n limbs, read
\* as two's complement.
U64AsSigned_Unsigned(bits, n) ==
    LET low == SubSeq(bits, 1, n)
    IN  [neg |-> FALSE, mag |-> low]

\* `bits as i32` (n = 2) and `bits as i64` (n = 4): the low n limbs, read
\* as two's complement.
U64AsSigned(bits, n) ==
    LET low == SubSeq(bits, 1, n)
    IN  IF TopBit(low) THEN [neg |-> TRUE, mag |-> Negate(low)]
        ELSE [neg |-> FALSE, mag |-> low]

\* f32::to_bits / f64::to_bits and f32::from_bits / f64::from_bits
to_bits(x) == x.bits
from_bits(limbs) == [bits |-> limbs]

NativeTypes == {"i32", "i64", "f32", "f64"}
LimbsOf(ty) == IF ty \in {"i32", "f32"} THEN 2 ELSE 4

\* WasmExternType::to_native for i32, i64, f32, f64
to_native(ty, self) == self

\* WasmExternType::from_native for i32, i64, f32, f64
from_native(ty, native) == native

\* NativeWasmType::to_binary
to_binary(ty, self) ==
    CASE ty = "i32" -> SignedAsU64(self)
      [] ty = "i64" -> SignedAsU64(self)
      [] ty = "f32" -> to_bits(self) \o Zeros(2)
      [] ty = "f64" -> to_bits(self)

\* NativeWasmType::from_binary
from_binary(ty, bits) ==
    CASE ty = "i32" -> U64AsSigned(bits, 2)
      [] ty = "i64" -> U64AsSigned(bits, 4)
      [] ty = "f32" -> from_bits(SubSeq(bits, 1, 2))
      [] ty = "f64" -> from_bits(bits)

\* The values drawn: limbs around the sign bit and the carries, 42, and the
\* exponent pattern of an f32 infinity or NaN.
NativeLimbs == {0, 1, 42, (Word \div 2) - 128, (Word \div 2) - 1, Word \div 2, Word - 1}
RECURSIVE LimbSeqs(_)
LimbSeqs(n) ==
    IF n = 0 THEN {<<>>}
    ELSE {<<limb>> \o rest : limb \in NativeLimbs, rest \in LimbSeqs(n - 1)}
MinMagnitude(n) == Zeros(n - 1) \o <<Word \div 2>>
SignedValues(n) ==
    {[neg |-> FALSE, mag |-> mag] : mag \in {l \in LimbSeqs(n) : ~TopBit(l)}}
    \cup {[neg |-> TRUE, mag |-> mag] :
             mag \in {l \in LimbSeqs(n) : (~TopBit(l) /\ l # Zeros(n)) \/ l = MinMagnitude(n)}}
FloatValues(n) == {[bits |-> limbs] : limbs \in LimbSeqs(n)}
NativeValues(ty) ==
    IF ty \in {"i32", "i64"} THEN SignedValues(LimbsOf(ty)) ELSE FloatValues(LimbsOf(ty))
NativeInputs == UNION {{[ty |-> ty, x |-> x] : x \in NativeValues(ty)} : ty \in NativeTypes}

ApplyToNative ==
    /\ nat_out.op = "none"
    /\ nat_out' = [op |-> "to_native", val |-> to_native(nat_in.ty, nat_in.x)]
    /\ UNCHANGED nat_in

ApplyToBinary ==
    /\ nat_out.op = "to_native"
    /\ nat_out' = [op |-> "to_binary", val |-> to_binary(nat_in.ty, nat_out.val)]
    /\ UNCHANGED nat_in

ApplyFromBinary ==
    /\ nat_out.op = "to_binary"
    /\ nat_out' = [op |-> "from_binary", val |-> from_binary(nat_in.ty, nat_out.val)]
    /\ UNCHANGED nat_in

ApplyFromNative ==
    /\ nat_out.op = "from_binary"
    /\ nat_out' = [op |-> "from_native", val |-> from_native(nat_in.ty, nat_out.val)]
    /\ UNCHANGED nat_in

IdleNative ==
    /\ nat_in = [ty |-> "i32", x |-> [neg |-> FALSE, mag |-> Zeros(2)]]
    /\ nat_out = [op |-> "none", val |-> <<>>]

DrawNative ==
    /\ nat_in \in NativeInputs
    /\ nat_out = [op |-> "none", val |-> <<>>]

NextNative ==
    \/ ApplyToNative /\ UNCHANGED notNative
    \/ ApplyToBinary /\ UNCHANGED notNative
    \/ ApplyFromBinary /\ UNCHANGED notNative
    \/ ApplyFromNative /\ UNCHANGED notNative

-----------------------------------------------------------------------------
(* interface-types/src/interpreter/mod.rs: Interpreter *)

\* The instructions try_from turns into executables, and one that stands
\* for every other variant (the `_ => unimplemented!()` arm).
Implemented == {"ArgumentGet", "Call", "CallExport", "ReadUtf8", "WriteUtf8"}
Instructions == Implemented \cup {"Other"}
InstructionLists == UNION {[1..n -> Instructions] : n \in 0..MaxInstructions}

\* The closure try_from builds for one instruction.
Executable(instruction) == [instruction |-> instruction]

\* An executable is a Fn(&mut Runtime) -> Result<(), String>: called, it
\* returns Ok(()) after pushing to or popping from the stack, or Err(message).
Messages == {"e1", "e2"}
Outcomes ==
    {[ok |-> TRUE, effect |-> effect, message |-> ""] : effect \in {"push", "pop"}}
    \cup {[ok |-> FALSE, effect |-> "none", message |-> message] : message \in Messages}

\* Stack::new()
StackNew == <<>>

NoResult == [tag |-> "none", stack |-> <<>>, message |-> ""]
Ok(stack) == [tag |-> "Ok", stack |-> stack, message |-> ""]
Err(message) == [tag |-> "Err", stack |-> <<>>, message |-> message]

\* The match in run: the Err arm returns, the Ok arm continues.
Returns_Never(outcome) == FALSE

\* The match in run: the Err arm returns, the Ok arm continues.
Returns(outcome) == ~outcome.ok

\* TryFrom<&Vec<Instruction>>::try_from
TryFrom ==
    /\ interpreter = "none"
    /\ IF \E i \in 1..Len(instructions) : instructions[i] \notin Implemented
       THEN /\ interpreter' = "panicked"
            /\ UNCHANGED executable_instructions
       ELSE /\ interpreter' = "built"
            /\ executable_instructions' =
                   [i \in 1..Len(instructions) |-> Executable(instructions[i])]
    /\ UNCHANGED <<instructions, rt_pc, rt_stack, rt_executed, rt_result, rt_runs>>

\* Interpreter::run, up to the loop: the runtime is created
RunBegin ==
    /\ interpreter = "built"
    /\ rt_pc = 0
    /\ rt_runs < MaxInterpRuns
    /\ rt_runs' = rt_runs + 1
    /\ rt_stack' = StackNew
    /\ rt_executed' = <<>>
    /\ rt_result' = NoResult
    /\ rt_pc' = 1
    /\ UNCHANGED <<instructions, interpreter, executable_instructions>>

\* Interpreter::run, one turn of the loop: the next executable is called
RunStep(outcome) ==
    /\ rt_pc >= 1
    /\ rt_pc <= Len(executable_instructions)
    /\ outcome.effect = "pop" => rt_stack # <<>>
    /\ rt_executed' = Append(rt_executed,
           [index |-> rt_pc, instruction |-> executable_instructions[rt_pc].instruction,
            ok |-> outcome.ok, message |-> outcome.message])
    /\ rt_stack' = CASE outcome.effect = "push" -> Append(rt_stack, rt_pc)
                     [] outcome.effect = "pop" -> SubSeq(rt_stack, 1, Len(rt_stack) - 1)
                     [] OTHER -> rt_stack
    /\ IF Returns(outcome)
       THEN /\ rt_result' = Err(outcome.message)
            /\ rt_pc' = 0
       ELSE /\ rt_pc' = rt_pc + 1
            /\ UNCHANGED rt_result
    /\ UNCHANGED <<instructions, interpreter, executable_instructions, rt_runs>>

\* Interpreter::run, after the loop: Ok(runtime.stack)
RunReturn ==
    /\ rt_pc = Len(executable_instructions) + 1
    /\ rt_result' = Ok(rt_stack)
    /\ rt_pc' = 0
    /\ UNCHANGED <<instructions, interpreter, executable_instructions, rt_stack,
                   rt_executed, rt_runs>>

IdleInterp ==
    /\ instructions = <<>>
    /\ interpreter = "none"
    /\ executable_instructions = <<>>
    /\ rt_pc = 0
    /\ rt_stack = <<>>
    /\ rt_executed = <<>>
    /\ rt_result = NoResult
    /\ rt_runs = 0

DrawInterp ==
    /\ instructions \in InstructionLists
    /\ interpreter = "none"
    /\ executable_instructions = <<>>
    /\ rt_pc = 0
    /\ rt_stack = <<>>
    /\ rt_executed = <<>>
    /\ rt_result = NoResult
    /\ rt_runs = 0

NextInterp ==
    \/ TryFrom /\ UNCHANGED notInterp
    \/ RunBegin /\ UNCHANGED notInterp
    \/ \E outcome \in Outcomes : RunStep(outcome) /\ UNCHANGED notInterp
    \/ RunReturn /\ UNCHANGED notInterp

-----------------------------------------------------------------------------
(* clif-backend/src/code.rs: translate_call_indirect and translate_call *)

\* Machine values: a tagged word.  "null" is the zero word.
Val(r, i) == [r |-> r, i |-> i]
Null == Val("null", 0)
CallerVmctx == Val("ctx", 0)

\* One emitted IR instruction: the opcode, the value it defines, its value
\* operands, the field or name it refers to, an immediate and, for calls,
\* the argument list.
Ins(op, dst, x, y, z, field, imm, args) ==
    [op |-> op, dst |-> dst, x |-> x, y |-> y, z |-> z, field |-> field, imm |-> imm,
     args |-> args]

\* FunctionEnvironment::translate_call_indirect: the instructions it inserts
translate_call_indirect_SigFirst(clif_sig_index, callee, call_args) ==
    << Ins("table_addr", "entry_addr", callee, "", "", "", 0, <<>>),
       Ins("load", "func_ptr", "entry_addr", "", "", "func", 0, <<>>),
       Ins("load", "loaded_vmctx_ptr", "entry_addr", "", "", "vmctx", 0, <<>>),
       Ins("special_param", "argument_vmctx_ptr", "", "", "", "VMContext", 0, <<>>),
       Ins("select", "vmctx_ptr", "loaded_vmctx_ptr", "loaded_vmctx_ptr",
           "argument_vmctx_ptr", "", 0, <<>>),
       Ins("load", "found_sig", "entry_addr", "", "", "sig_id", 0, <<>>),
       Ins("symbol_value", "expected_sig", "", "", "", "SIG_NAMESPACE", clif_sig_index, <<>>),
       Ins("ifcmp", "not_equal_flags", "found_sig", "expected_sig", "", "", 0, <<>>),
       Ins("trapif", "", "not_equal_flags", "", "", "BadSignature", 0, <<>>),
       Ins("trapz", "", "func_ptr", "", "", "IndirectCallToNull", 0, <<>>),
       Ins("call_indirect", "", "func_ptr", "", "", "", 0, <<"vmctx_ptr">> \o call_args) >>

\* FunctionEnvironment::translate_call_indirect: the instructions it inserts
translate_call_indirect(clif_sig_index, callee, call_args) ==
    << Ins("table_addr", "entry_addr", callee, "", "", "", 0, <<>>),
       Ins("load", "func_ptr", "entry_addr", "", "", "func", 0, <<>>),
       Ins("load", "loaded_vmctx_ptr", "entry_addr", "", "", "vmctx", 0, <<>>),
       Ins("special_param", "argument_vmctx_ptr", "", "", "", "VMContext", 0, <<>>),
       Ins("select", "vmctx_ptr", "loaded_vmctx_ptr", "loaded_vmctx_ptr",
           "argument_vmctx_ptr", "", 0, <<>>),
       Ins("load", "found_sig", "entry_addr", "", "", "sig_id", 0, <<>>),
       Ins("trapz", "", "func_ptr", "", "", "IndirectCallToNull", 0, <<>>),
       Ins("symbol_value", "expected_sig", "", "", "", "SIG_NAMESPACE", clif_sig_index, <<>>),
       Ins("ifcmp", "not_equal_flags", "found_sig", "expected_sig", "", "", 0, <<>>),
       Ins("trapif", "", "not_equal_flags", "", "", "BadSignature", 0, <<>>),
       Ins("call_indirect", "", "func_ptr", "", "", "", 0, <<"vmctx_ptr">> \o call_args) >>

\* FunctionEnvironment::translate_call, with the callee's index projected by
\* local_or_import
translate_call_CallerContext(callee_index, info, call_args) ==
    LET projected == local_or_import(Combined(callee_index), info, "imported_functions")
    IN  IF projected.tag = "Local"
        THEN << Ins("special_param", "vmctx", "", "", "", "VMContext", 0, <<>>),
                Ins("load", "function_array_ptr", "vmctx", "", "", "local_functions", 0, <<>>),
                Ins("load", "function_ptr", "function_array_ptr", "", "", "",
                    projected.index.lo * 8, <<>>),
                Ins("call_indirect", "", "function_ptr", "", "", "", 0,
                    <<"vmctx">> \o call_args) >>
        ELSE << Ins("special_param", "vmctx", "", "", "", "VMContext", 0, <<>>),
                Ins("load", "imported_funcs", "vmctx", "", "", "imported_funcs", 0, <<>>),
                Ins("iadd_imm", "imported_func_struct_addr", "imported_funcs", "", "", "",
                    projected.index.lo, <<>>),
                Ins("load", "imported_func_addr", "imported_func_struct_addr", "", "",
                    "func", 0, <<>>),
                Ins("load", "imported_vmctx_addr", "imported_func_struct_addr", "", "",
                    "vmctx", 0, <<>>),
                Ins("call_indirect", "", "imported_func_addr", "", "", "", 0,
                    <<"vmctx">> \o call_args) >>

\* FunctionEnvironment::translate_call, with the callee's index projected by
\* local_or_import
translate_call(callee_index, info, call_args) ==
    LET projected == local_or_import(Combined(callee_index), info, "imported_functions")
    IN  IF projected.tag = "Local"
        THEN << Ins("special_param", "vmctx", "", "", "", "VMContext", 0, <<>>),
                Ins("load", "function_array_ptr", "vmctx", "", "", "local_functions", 0, <<>>),
                Ins("load", "function_ptr", "function_array_ptr", "", "", "",
                    projected.index.lo * 8, <<>>),
                Ins("call_indirect", "", "function_ptr", "", "", "", 0,
                    <<"vmctx">> \o call_args) >>
        ELSE << Ins("special_param", "vmctx", "", "", "", "VMContext", 0, <<>>),
                Ins("load", "imported_funcs", "vmctx", "", "", "imported_funcs", 0, <<>>),
                Ins("iadd_imm", "imported_func_struct_addr", "imported_funcs", "", "", "",
                    projected.index.lo, <<>>),
                Ins("load", "imported_func_addr", "imported_func_struct_addr", "", "",
                    "func", 0, <<>>),
                Ins("load", "imported_vmctx_addr", "imported_func_struct_addr", "", "",
                    "vmctx", 0, <<>>),
                Ins("call_indirect", "", "imported_func_addr", "", "", "", 0,
                    <<"imported_vmctx_addr">> \o call_args) >>

\* The values the emitted code names, and the Wasm arguments of the call.
ValueNames ==
    {"entry_addr", "func_ptr", "loaded_vmctx_ptr", "argument_vmctx_ptr", "vmctx_ptr",
     "found_sig", "expected_sig", "not_equal_flags", "vmctx", "function_array_ptr",
     "function_ptr", "imported_funcs", "imported_func_struct_addr", "imported_func_addr",
     "imported_vmctx_addr", "callee", "arg1", "arg2", "arg3"}
CallArgs(n) == SubSeq(<<"arg1", "arg2", "arg3">>, 1, n)

\* The memory the emitted code reads: the table of Anyfunc entries, the
\* local function array and the ImportedFunc records behind the VMContext.
Load(base, field, imm, table) ==
    CASE base.r = "table" -> table[base.i + 1][field]
      [] base.r = "ctx" /\ field = "local_functions" -> Val("local_functions", 0)
      [] base.r = "ctx" /\ field = "imported_funcs" -> Val("imported_funcs", 0)
      [] base.r = "local_functions" -> Val("local_code", imm \div 8)
      [] base.r = "imported_funcs" /\ field = "func" -> Val("import_code", base.i)
      [] base.r = "imported_funcs" /\ field = "vmctx" -> Val("ctx", base.i + 1)
      [] OTHER -> Null

NoCall == [kind |-> "none", code |-> "", target |-> Null, args |-> <<>>]

\* The effect of one instruction: the values after it and what it did.
Exec(ins, env, table) ==
    LET set(v) == [env EXCEPT ![ins.dst] = v]
        go(e) == [env |-> e, out |-> NoCall]
        trap(code) == [env |-> env, out |-> [NoCall EXCEPT !.kind = "trap", !.code = code]]
    IN  CASE ins.op = "table_addr" ->
                 IF env[ins.x].i < Len(table)
                 THEN go(set(Val("table", env[ins.x].i)))
                 ELSE trap("TableOutOfBounds")
          [] ins.op = "load" -> go(set(Load(env[ins.x], ins.field, ins.imm, table)))
          [] ins.op = "special_param" -> go(set(CallerVmctx))
          [] ins.op = "select" ->
                 go(set(IF env[ins.x] # Null THEN env[ins.y] ELSE env[ins.z]))
          [] ins.op = "symbol_value" -> go(set(Val("sig", ins.imm)))
          [] ins.op = "ifcmp" ->
                 go(set(Val("flags", IF env[ins.x] # env[ins.y] THEN 1 ELSE 0)))
          [] ins.op = "trapif" -> IF env[ins.x].i = 1 THEN trap(ins.field) ELSE go(env)
          [] ins.op = "trapz" -> IF env[ins.x] = Null THEN trap(ins.field) ELSE go(env)
          [] ins.op = "iadd_imm" -> go(set(Val(env[ins.x].r, env[ins.x].i + ins.imm)))
          [] ins.op = "call_indirect" ->
                 [env |-> env,
                  out |-> [kind |-> "call", code |-> "", target |-> env[ins.x],
                           args |-> [k \in 1..Len(ins.args) |-> env[ins.args[k]]]]]

\* The tables, callees and signatures the emitted code runs against.
AnyfuncEntries ==
    {[func |-> f, vmctx |-> c, sig_id |-> Val("sig", s)] :
         f \in {Null, Val("table_code", 1)}, c \in {Null, Val("ctx", 9)}, s \in 0..1}
Tables == UNION {[1..n -> AnyfuncEntries] : n \in 0..MaxTable}
CallInputs ==
    {[kind |-> "indirect", table |-> t, callee |-> i, sig |-> s, nargs |-> n, imports |-> 0] :
         t \in Tables, i \in 0..MaxTable, s \in 0..1, n \in 0..MaxArgs}
    \cup {[kind |-> "direct", table |-> <<>>, callee |-> i, sig |-> 0, nargs |-> n,
           imports |-> c] : i \in 0..(MaxImports + 1), n \in 0..MaxArgs, c \in 0..MaxImports}

InitialValues ==
    [n \in ValueNames |->
        CASE n = "callee" -> Val("index", cg_in.callee)
          [] n = "arg1" -> Val("arg", 1)
          [] n = "arg2" -> Val("arg", 2)
          [] n = "arg3" -> Val("arg", 3)
          [] OTHER -> Null]

\* The translator emits the code of the call.
TranslateCallIndirect ==
    /\ cg_pc = 0
    /\ cg_code = <<>>
    /\ cg_in.kind = "indirect"
    /\ cg_code' = translate_call_indirect(cg_in.sig, "callee", CallArgs(cg_in.nargs))
    /\ cg_env' = InitialValues
    /\ cg_pc' = 1
    /\ UNCHANGED <<cg_in, cg_out, cg_invoked>>

TranslateCall ==
    /\ cg_pc = 0
    /\ cg_code = <<>>
    /\ cg_in.kind = "direct"
    /\ cg_code' = translate_call(U32(0, cg_in.callee),
                                 [k \in Kinds |-> U32(0, cg_in.imports)],
                                 CallArgs(cg_in.nargs))
    /\ cg_env' = InitialValues
    /\ cg_pc' = 1
    /\ UNCHANGED <<cg_in, cg_out, cg_invoked>>

\* The machine executes the next emitted instruction; a trap ends the run.
ExecuteEmitted ==
    /\ cg_pc >= 1
    /\ cg_pc <= Len(cg_code)
    /\ cg_out.kind # "trap"
    /\ LET r == Exec(cg_code[cg_pc], cg_env, cg_in.table)
       IN  /\ cg_env' = r.env
           /\ cg_out' = r.out
           /\ cg_invoked' = cg_invoked + (IF r.out.kind = "call" THEN 1 ELSE 0)
    /\ cg_pc' = cg_pc + 1
    /\ UNCHANGED <<cg_in, cg_code>>

IdleCall ==
    /\ cg_in = [kind |-> "none", table |-> <<>>, callee |-> 0, sig |-> 0, nargs |-> 0,
                imports |-> 0]
    /\ cg_code = <<>>
    /\ cg_pc = 0
    /\ cg_env = [n \in ValueNames |-> Null]
    /\ cg_out = NoCall
    /\ cg_invoked = 0

DrawCall ==
    /\ cg_in \in CallInputs
    /\ cg_code = <<>>
    /\ cg_pc = 0
    /\ cg_env = [n \in ValueNames |-> Null]
    /\ cg_out = NoCall
    /\ cg_invoked = 0

NextCall ==
    \/ TranslateCallIndirect /\ UNCHANGED notCall
    \/ TranslateCall /\ UNCHANGED notCall
    \/ ExecuteEmitted /\ UNCHANGED notCall

-----------------------------------------------------------------------------
(* clif-backend/src/code.rs: CraneliftFunctionCodeGenerator *)

\* Event::Internal(..), Event::Wasm(..) and Event::WasmOwned(..)
InternalEvents == {"FunctionBegin", "FunctionEnd", "Breakpoint", "SetInternal", "GetInternal"}
Operators == {"Const", "Drop", "Block", "End", "Unreachable"}
Events ==
    {[kind |-> "Internal", what |-> e] : e \in InternalEvents}
    \cup {[kind |-> k, what |-> op] : k \in {"Wasm", "WasmOwned"}, op \in Operators}

\* feed_event: the event reaches translate_operator
Translated_AfterEnd(event, control_stack) ==
    event.kind # "Internal"

\* feed_event: the event reaches translate_operator
Translated(event, control_stack) ==
    /\ event.kind # "Internal"
    /\ control_stack # 0

\* translate_operator of cranelift_wasm, by its effect on the function body,
\* the translation state and the builder: an instruction is emitted in
\* reachable code, the operand stack and the control stack follow the
\* operator, Unreachable ends reachability, and End leaves it to the block
\* that follows (after).
translate_operator(op, body, state, after) ==
    [body |-> IF state.reachable /\ op # "Block" /\ op # "End"
              THEN Append(body, [op |-> op, args |-> <<>>]) ELSE body,
     state |->
        [reachable |-> CASE op = "Unreachable" -> FALSE
                         [] op = "End" -> after.reachable
                         [] OTHER -> state.reachable,
         stack |-> CASE op = "Const" /\ state.reachable ->
                            Append(state.stack, Len(state.stack) + 1)
                     [] op = "Drop" /\ state.stack # <<>> ->
                            SubSeq(state.stack, 1, Len(state.stack) - 1)
                     [] OTHER -> state.stack,
         control_stack |-> CASE op = "Block" -> state.control_stack + 1
                             [] op = "End" /\ state.control_stack > 0 ->
                                    state.control_stack - 1
                             [] OTHER -> state.control_stack],
     is_unreachable |-> IF op = "End" THEN after.is_unreachable ELSE FALSE]

\* The snapshot an operation is compared with.
FcgFields == [body |-> fcg_body, state |-> fcg_state, next_local |-> next_local]
FcgEvent(op, event, res) ==
    [op |-> op, event |-> event, result |-> res, before |-> FcgFields]

\* CraneliftFunctionCodeGenerator::feed_param
FeedParam ==
    /\ fcg_live
    /\ fcg_state.control_stack > 0
    /\ fcg_body = <<>>
    /\ next_local < MaxLocals
    /\ next_local' = next_local + 1
    /\ fcg_ev' = FcgEvent("feed_param", [kind |-> "none", what |-> ""], "Ok")
    /\ UNCHANGED <<fcg_body, fcg_state, is_unreachable, fcg_live>>

\* CraneliftFunctionCodeGenerator::feed_event
FcgFeedEvent(event, translation_ok, after) ==
    /\ fcg_live
    /\ IF Translated(event, fcg_state.control_stack)
       THEN IF translation_ok
            THEN LET t == translate_operator(event.what, fcg_body, fcg_state, after)
                 IN  /\ Len(t.body) <= MaxBody
                     /\ Len(t.state.stack) <= MaxStack
                     /\ t.state.control_stack <= MaxControl
                     /\ fcg_body' = t.body
                     /\ fcg_state' = t.state
                     /\ is_unreachable' = t.is_unreachable
                     /\ fcg_ev' = FcgEvent("feed_event", event, "Ok")
            ELSE /\ fcg_ev' = FcgEvent("feed_event", event, "Err")
                 /\ UNCHANGED <<fcg_body, fcg_state, is_unreachable>>
       ELSE /\ fcg_ev' = FcgEvent("feed_event", event, "Ok")
            /\ UNCHANGED <<fcg_body, fcg_state, is_unreachable>>
    /\ UNCHANGED <<next_local, fcg_live>>

\* CraneliftFunctionCodeGenerator::return_mode
return_mode == "NormalReturns"

\* finalize: the exit path is reachable
ExitReachable_Always(state, block_unreachable) == TRUE

\* finalize: the exit path is reachable
ExitReachable(state, block_unreachable) ==
    /\ state.reachable
    /\ ~block_unreachable

\* CraneliftFunctionCodeGenerator::finalize, called when the operators of
\* the function have all been fed
FcgFinalize ==
    /\ fcg_live
    /\ fcg_state.control_stack = 0
    /\ fcg_body' =
          IF ExitReachable(fcg_state, is_unreachable)
          THEN Append(fcg_body,
                      [op |-> IF return_mode = "NormalReturns" THEN "return"
                              ELSE "fallthrough_return",
                       args |-> fcg_state.stack])
          ELSE fcg_body
    /\ fcg_state' = [fcg_state EXCEPT !.stack = <<>>]
    /\ fcg_live' = FALSE
    /\ fcg_ev' = FcgEvent("finalize", [kind |-> "none", what |-> ""], "Ok")
    /\ UNCHANGED <<next_local, is_unreachable>>

\* The generator next_function returns: an empty body and a translation
\* state initialized with the block of the whole function.
InitFcg ==
    /\ fcg_body = <<>>
    /\ fcg_state = [reachable |-> TRUE, stack |-> <<>>, control_stack |-> 1]
    /\ is_unreachable = FALSE
    /\ next_local = 0
    /\ fcg_live = TRUE
    /\ fcg_ev = [op |-> "next_function", event |-> [kind |-> "none", what |-> ""],
                 result |-> "Ok",
                 before |-> [body |-> <<>>,
                             state |-> [reachable |-> TRUE, stack |-> <<>>,
                                        control_stack |-> 1],
                             next_local |-> 0]]

NextFcg ==
    \/ FeedParam /\ UNCHANGED notFcg
    \/ \E event \in Events, translation_ok \in BOOLEAN :
          \E after \in IF event.what = "End"
                        THEN [reachable : BOOLEAN, is_unreachable : BOOLEAN]
                        ELSE {[reachable |-> TRUE, is_unreachable |-> FALSE]} :
              FcgFeedEvent(event, translation_ok, after) /\ UNCHANGED notFcg
    \/ FcgFinalize /\ UNCHANGED notFcg

-----------------------------------------------------------------------------
(* clif-backend/src/code.rs: make_heap, translate_memory_grow, translate_memory_size *)

\* The match on mem_index.local_or_import(..): the namespace, the sub-index
\* and the descriptor of the local or imported memory.
ResolveMemory(clif_mem_index, info) ==
    LET counts == [k \in Kinds |-> U32(0, Len(info.imported_memories))]
        projected == local_or_import(Combined(U32(0, clif_mem_index)), counts,
                                     "imported_memories")
    IN  IF projected.tag = "Local"
        THEN [namespace |-> "LOCAL_NAMESPACE", mem_index |-> projected.index.lo,
              description |-> MapAt(info.memories, projected.index.lo)]
        ELSE [namespace |-> "IMPORT_NAMESPACE", mem_index |-> projected.index.lo,
              description |-> MapAt(info.imported_memories, projected.index.lo)]

NoMemoryOp ==
    [op |-> "none", namespace |-> "", name |-> "", args |-> <<>>, base |-> "",
     readonly |-> FALSE, style |-> ""]

\* FunctionEnvironment::translate_memory_grow: the helper called and its arguments
translate_memory_grow_Combined(clif_mem_index, info) ==
    LET memory == ResolveMemory(clif_mem_index, info)
        ty == memory_type(memory.description).ty
    IN  [NoMemoryOp EXCEPT
            !.op = "memory.grow",
            !.namespace = memory.namespace,
            !.name = CASE ty = "Dynamic" -> "DYNAMIC_MEM_GROW"
                       [] ty = "Static" -> "STATIC_MEM_GROW"
                       [] ty = "SharedStatic" -> "SHARED_STATIC_MEM_GROW",
            !.args = <<CallerVmctx, Val("iconst", clif_mem_index), Val("arg", 1)>>]

\* FunctionEnvironment::translate_memory_grow: the helper called and its arguments
translate_memory_grow(clif_mem_index, info) ==
    LET memory == ResolveMemory(clif_mem_index, info)
        ty == memory_type(memory.description).ty
    IN  [NoMemoryOp EXCEPT
            !.op = "memory.grow",
            !.namespace = memory.namespace,
            !.name = CASE ty = "Dynamic" -> "DYNAMIC_MEM_GROW"
                       [] ty = "Static" -> "STATIC_MEM_GROW"
                       [] ty = "SharedStatic" -> "SHARED_STATIC_MEM_GROW",
            !.args = <<CallerVmctx, Val("iconst", memory.mem_index), Val("arg", 1)>>]

\* FunctionEnvironment::translate_memory_size: the helper called and its arguments
translate_memory_size(clif_mem_index, info) ==
    LET memory == ResolveMemory(clif_mem_index, info)
        ty == memory_type(memory.description).ty
    IN  [NoMemoryOp EXCEPT
            !.op = "memory.size",
            !.namespace = memory.namespace,
            !.name = CASE ty = "Dynamic" -> "DYNAMIC_MEM_SIZE"
                       [] ty = "Static" -> "STATIC_MEM_SIZE"
                       [] ty = "SharedStatic" -> "SHARED_STATIC_MEM_SIZE",
            !.args = <<CallerVmctx, Val("iconst", memory.mem_index)>>]

\* FunctionEnvironment::make_heap: where the LocalMemory pointer is loaded
\* from, the readonly flag of the load of its base, and the heap style
make_heap(clif_mem_index, info) ==
    LET memory == ResolveMemory(clif_mem_index, info)
        ty == memory_type(memory.description).ty
    IN  [NoMemoryOp EXCEPT
            !.op = "make_heap",
            !.base = IF memory.namespace = "LOCAL_NAMESPACE" THEN "offset_memories"
                     ELSE "offset_imported_memories",
            !.args = <<Val("iadd_imm", memory.mem_index)>>,
            !.readonly = FALSE,
            !.style = IF ty = "Dynamic" THEN "Dynamic" ELSE "Static"]

\* The memories of the modules explored: one descriptor of each MemoryType.
MemoryKinds ==
    {[minimum |-> 1, maximum |-> None, shared |-> FALSE],
     [minimum |-> 1, maximum |-> Some(2), shared |-> FALSE],
     [minimum |-> 1, maximum |-> Some(2), shared |-> TRUE]}
MemoryLists(n) == UNION {[1..k -> MemoryKinds] : k \in 0..n}
MemoryOpInputs ==
    UNION {{[info |-> [imported_memories |-> imported, memories |-> locals], index |-> i] :
                i \in 0..(Len(imported) + Len(locals) - 1)} :
           imported \in MemoryLists(MaxImports), locals \in MemoryLists(MaxMemories)}

TranslateMemoryGrow ==
    /\ mo_out = NoMemoryOp
    /\ mo_out' = translate_memory_grow(mo_in.index, mo_in.info)
    /\ UNCHANGED mo_in

TranslateMemorySize ==
    /\ mo_out = NoMemoryOp
    /\ mo_out' = translate_memory_size(mo_in.index, mo_in.info)
    /\ UNCHANGED mo_in

MakeHeap ==
    /\ mo_out = NoMemoryOp
    /\ mo_out' = make_heap(mo_in.index, mo_in.info)
    /\ UNCHANGED mo_in

IdleMemOp ==
    /\ mo_in = [info |-> [imported_memories |-> <<>>, memories |-> <<>>], index |-> 0]
    /\ mo_out = NoMemoryOp

DrawMemOp ==
    /\ mo_in \in MemoryOpInputs
    /\ mo_out = NoMemoryOp

NextMemOp ==
    \/ TranslateMemoryGrow /\ UNCHANGED notMemOp
    \/ TranslateMemorySize /\ UNCHANGED notMemOp
    \/ MakeHeap /\ UNCHANGED notMemOp

-----------------------------------------------------------------------------
(* runtime-core/src/loader.rs: LocalInstance::call *)

\* Value::to_u128 followed by `as u64`: the low 64 bits, four limbs.  An
\* I32 or I64 is a sign and a magnitude, the other values are bit patterns.
to_u128_as_u64(arg) ==
    CASE arg.ty \in {"I32", "I64"} -> SignedAsU64(arg.v)
      [] arg.ty = "F32" -> to_bits(arg.v) \o Zeros(2)
      [] arg.ty = "F64" -> to_bits(arg.v)
      [] arg.ty = "V128" -> SubSeq(arg.v.bits, 1, 4)

\* One turn of the loop of call: the words pushed for one argument
WordsOf_HighFirst(arg) ==
    IF arg.ty = "V128"
    THEN <<SubSeq(arg.v.bits, 5, 8), SubSeq(arg.v.bits, 1, 4)>>
    ELSE <<to_u128_as_u64(arg)>>

\* One turn of the loop of call: the words pushed for one argument
WordsOf(arg) ==
    IF arg.ty = "V128"
    THEN <<SubSeq(arg.v.bits, 1, 4), SubSeq(arg.v.bits, 5, 8)>>
    ELSE <<to_u128_as_u64(arg)>>

\* The loop of call that fills args_u64
RECURSIVE args_u64(_)
args_u64(args) ==
    IF args = <<>> THEN <<>> ELSE WordsOf(Head(args)) \o args_u64(Tail(args))

\* The values call is given, one or two of each type.
CallValues ==
    {[ty |-> "I32", v |-> [neg |-> TRUE, mag |-> <<1, 0>>]],
     [ty |-> "I64", v |-> [neg |-> FALSE, mag |-> <<5, 0, 0, Word \div 4>>]],
     [ty |-> "F32", v |-> [bits |-> <<0, Word \div 4>>]],
     [ty |-> "F64", v |-> [bits |-> <<0, 0, 0, Word \div 4>>]],
     [ty |-> "V128", v |-> [bits |-> <<1, 2, 3, 4, 5, 6, 7, 8>>]]}
CallValueLists == UNION {[1..n -> CallValues] : n \in 0..MaxCallArgs}
Offsets == <<0, 16>>

NoInvocation == [kind |-> "none", message |-> "", offset |-> 0, words |-> <<>>]

\* LocalInstance::call, up to the jump into the code or the early return
LocalInstanceCall ==
    /\ lc_out.kind = "none"
    /\ LET words == args_u64(lc_in.args)
       IN  IF ~InMap(Offsets, lc_in.id)
           THEN /\ lc_out' = [NoInvocation EXCEPT !.kind = "panic"]
                /\ UNCHANGED lc_invoked
           ELSE IF Len(words) <= 5
           THEN /\ lc_out' = [NoInvocation EXCEPT !.kind = "invoked",
                                                  !.offset = MapAt(Offsets, lc_in.id),
                                                  !.words = words]
                /\ lc_invoked' = lc_invoked + 1
           ELSE /\ lc_out' = [NoInvocation EXCEPT !.kind = "Err",
                                                  !.message = "too many arguments"]
                /\ UNCHANGED lc_invoked
    /\ UNCHANGED lc_in

\* The code returns and call returns Ok(result)
LocalInstanceCallReturns ==
    /\ lc_out.kind = "invoked"
    /\ lc_out' = [lc_out EXCEPT !.kind = "Ok"]
    /\ UNCHANGED <<lc_in, lc_invoked>>

IdleLocalCall ==
    /\ lc_in = [args |-> <<>>, id |-> 0]
    /\ lc_out = NoInvocation
    /\ lc_invoked = 0

DrawLocalCall ==
    /\ lc_in \in [args : CallValueLists, id : 0..Len(Offsets)]
    /\ lc_out = NoInvocation
    /\ lc_invoked = 0

NextLocalCall ==
    \/ LocalInstanceCall /\ UNCHANGED notLocalCall
    \/ LocalInstanceCallReturns /\ UNCHANGED notLocalCall

-----------------------------------------------------------------------------
(* Specifications *)

Init ==
    InitTrap /\ InitChain /\ InitThreads /\ IdleIndex /\ IdleMemory /\ IdleMcg /\ IdleCompile /\ InitLoader /\ IdleNative /\ IdleInterp /\ IdleCall /\ InitFcg /\ IdleMemOp /\ IdleLocalCall

InitIndex ==
    InitTrap /\ InitChain /\ InitThreads /\ DrawIndex /\ IdleMemory /\ IdleMcg /\ IdleCompile /\ InitLoader /\ IdleNative /\ IdleInterp /\ IdleCall /\ InitFcg /\ IdleMemOp /\ IdleLocalCall

InitMemory ==
    InitTrap /\ InitChain /\ InitThreads /\ IdleIndex /\ DrawMemory /\ IdleMcg /\ IdleCompile /\ InitLoader /\ IdleNative /\ IdleInterp /\ IdleCall /\ InitFcg /\ IdleMemOp /\ IdleLocalCall

InitMcg ==
    InitTrap /\ InitChain /\ InitThreads /\ IdleIndex /\ IdleMemory /\ DrawMcg /\ IdleCompile /\ InitLoader /\ IdleNative /\ IdleInterp /\ IdleCall /\ InitFcg /\ IdleMemOp /\ IdleLocalCall

InitCompile ==
    InitTrap /\ InitChain /\ InitThreads /\ IdleIndex /\ IdleMemory /\ IdleMcg /\ DrawCompile /\ InitLoader /\ IdleNative /\ IdleInterp /\ IdleCall /\ InitFcg /\ IdleMemOp /\ IdleLocalCall

InitNative ==
    InitTrap /\ InitChain /\ InitThreads /\ IdleIndex /\ IdleMemory /\ IdleMcg /\ IdleCompile /\ InitLoader /\ DrawNative /\ IdleInterp /\ IdleCall /\ InitFcg /\ IdleMemOp /\ IdleLocalCall

InitInterp ==
    InitTrap /\ InitChain /\ InitThreads /\ IdleIndex /\ IdleMemory /\ IdleMcg /\ IdleCompile /\ InitLoader /\ IdleNative /\ DrawInterp /\ IdleCall /\ InitFcg /\ IdleMemOp /\ IdleLocalCall

InitCall ==
    InitTrap /\ InitChain /\ InitThreads /\ IdleIndex /\ IdleMemory /\ IdleMcg /\ IdleCompile /\ InitLoader /\ IdleNative /\ IdleInterp /\ DrawCall /\ InitFcg /\ IdleMemOp /\ IdleLocalCall

InitMemOp ==
    InitTrap /\ InitChain /\ InitThreads /\ IdleIndex /\ IdleMemory /\ IdleMcg /\ IdleCompile /\ InitLoader /\ IdleNative /\ IdleInterp /\ IdleCall /\ InitFcg /\ DrawMemOp /\ IdleLocalCall

InitLocalCall ==
    InitTrap /\ InitChain /\ InitThreads /\ IdleIndex /\ IdleMemory /\ IdleMcg /\ IdleCompile /\ InitLoader /\ IdleNative /\ IdleInterp /\ IdleCall /\ InitFcg /\ IdleMemOp /\ DrawLocalCall

SpecChain == Init /\ [][NextChain]_vars

NextTrap ==
    \/ \E handler_data \in HandlerDatas : CallProtectedEnter(handler_data) /\ UNCHANGED notTrap
    \/ CallProtectedReturn /\ UNCHANGED notTrap
    \/ \E signal \in HandledSignals, si_addr \in FaultAddrs, rip \in InstPtrs :
          RaiseSignal(signal, si_addr, rip) /\ UNCHANGED notTrap
    \/ trigger_trap /\ UNCHANGED notTrap
    \/ \E data \in EarlyDatas : SetTrapEarlyData(data) /\ UNCHANGED notTrap

SpecTrap == Init /\ [][NextTrap]_vars

SpecThreads == Init /\ [][NextThreads]_vars

SpecIndex == InitIndex /\ [][NextIndex]_vars

SpecMemory == InitMemory /\ [][NextMemory]_vars

SpecMcg == InitMcg /\ [][NextMcg]_vars

SpecCompile == InitCompile /\ [][NextCompile]_vars

SpecLoader == Init /\ [][NextLoader]_vars

SpecNative == InitNative /\ [][NextNative]_vars

SpecInterp == InitInterp /\ [][NextInterp]_vars

SpecCall == InitCall /\ [][NextCall]_vars

SpecFcg == Init /\ [][NextFcg]_vars

SpecMemOp == InitMemOp /\ [][NextMemOp]_vars

SpecLocalCall == InitLocalCall /\ [][NextLocalCall]_vars

-----------------------------------------------------------------------------
(* Claims about the trap recovery barrier (SpecTrap) *)

Caught == caught.via # "none"
CaughtSignal == caught.via = "signal"

\* C1 (as claimed): every jump caught inside a call_protected region, from a
\* handled signal or from trigger_trap, with or without a relocation match
\* and with or without trap-early-data, makes that call_protected return an
\* Err; it never panics and never aborts the process.
C1_CaughtJumpReturnsErr ==
    Caught => (proc = "running" /\ ret.kind = "Err" /\ ret.depth = caught.landed)

\* C2: when a call_protected nested in another one returns, normally or by
\* a caught jump, the jump buffer is again what it was when the nested call
\* was entered; the buffer always holds the context of the innermost active
\* region, so a jump lands in the innermost active call_protected, at any
\* nesting depth.
C2_NestedRestoresBuffer ==
    /\ ret.kind # "none" => (ret.buf = ret.entry_buf /\ SETJMP_BUFFER = ret.entry_buf)
    /\ proc = "running" => SETJMP_BUFFER = Len(frames)
    /\ Caught => (caught.landed = ev.depth /\ Len(frames) = ev.depth - 1)
    /\ proc # "dangling"

\* A fault caught by a nested call_protected, the outer region still active.
C2_Witness ==
    /\ ret.kind = "Err"
    /\ ret.depth >= 2
    /\ CaughtSignal
    /\ Len(frames) = ret.depth - 1
    /\ SETJMP_BUFFER = ret.depth - 1

\* The trapcode table of the claim.
C6_Table(trapcode) ==
    CASE trapcode \in {"StackOverflow", "HeapOutOfBounds", "OutOfBounds"} ->
            BoxExceptionCode("MemoryOutOfBounds")
      [] trapcode \in {"TableOutOfBounds", "IndirectCallToNull"} ->
            BoxExceptionCode("CallIndirectOOB")
      [] trapcode = "BadSignature" -> BoxExceptionCode("IncorrectCallIndirectSignature")
      [] trapcode \in {"IntegerOverflow", "IntegerDivisionByZero", "BadConversionToInteger"} ->
            BoxExceptionCode("IllegalArithmetic")
      [] trapcode = "UnreachableCodeReached" -> BoxExceptionCode("Unreachable")
      [] OTHER -> BoxString("unknown clif trap code")

\* C6 (as claimed): whenever a fault is caught and the relocation table maps
\* the faulting IP to a TrapData, the error is the table's translation of the
\* trapcode, "unknown clif trap code" for an unlisted one.
C6_AnyFaultTranslated ==
    (CaughtSignal /\ caught.lookup # "None") =>
        (ret.kind = "Err" /\ ret.payload = C6_Table(caught.lookup))

\* C6 (amended): when a SIGILL is caught, no trap-early-data is set and the
\* relocation table maps the faulting IP to a TrapData, the error is the
\* table's translation of the trapcode, "unknown clif trap code" for an
\* unlisted one.
C6_SigillTranslated ==
    (CaughtSignal /\ caught.signum = SignalNumber.SIGILL /\ caught.early = "None"
        /\ caught.lookup # "None") =>
        (ret.kind = "Err" /\ ret.payload = C6_Table(caught.lookup))

\* A SIGILL at the BadSignature trap site, caught and translated.
C6_Witness ==
    /\ CaughtSignal
    /\ caught.signum = SignalNumber.SIGILL
    /\ caught.early = "None"
    /\ caught.lookup = "BadSignature"
    /\ ret.payload = BoxExceptionCode("IncorrectCallIndirectSignature")

\* C7: a jump caught while the trap-early-data slot is set returns an Err
\* with exactly that data, whatever the signal number and the relocation
\* table say, and leaves the slot empty; a jump caught next, with nothing
\* stored in between, finds the slot empty and is not answered with data.
C7_EarlyDataOneShot ==
    /\ (Caught /\ caught.early # "None") =>
          /\ proc = "running"
          /\ ret.kind = "Err"
          /\ ret.payload = BoxData(caught.early)
    /\ Caught => TRAP_EARLY_DATA = "None"
    /\ (Caught /\ caught.after_taken) =>
          /\ caught.early = "None"
          /\ ret.payload.tag # "Data"

\* A second fault, caught after one that used up the slot, classified from
\* the signal.
C7_Witness ==
    /\ CaughtSignal
    /\ caught.after_taken
    /\ caught.lookup # "None"
    /\ ret.kind = "Err"
    /\ ret.payload.tag = "ExceptionCode"

\* C8: outside every protected region the jump buffer is all zero, and a
\* handled signal raised there ends the process without a jump: do_unwind
\* aborts once the handlers are installed, and before that the signal has
\* its default disposition.
C8_OutsideRegionAborts ==
    /\ (proc = "running" /\ frames = <<>>) => SETJMP_BUFFER = 0
    /\ (ev.op = "signal" /\ ev.depth = 0) =>
          /\ proc = IF SIGHANDLER_INIT THEN "aborted" ELSE "killed"
          /\ ~Caught
          /\ ret.kind = "none"
    /\ proc = "aborted" => (ev.op = "signal" /\ ev.depth = 0)

\* A signal raised after the regions of the thread have returned, one of
\* them by a caught fault.
C8_Witness ==
    /\ proc = "aborted"
    /\ ev.op = "signal"
    /\ ev.depth = 0
    /\ CAUGHT_ADDRESSES # <<0, 0>>

C10_Message(signum, addr) ==
    "unknown trap at "
    \o (CASE addr = 16 -> "0x10" [] addr = 255 -> "0xff" [] OTHER -> "?")
    \o " - "
    \o (CASE signum = 4  -> "illegal instruction"
          [] signum = 7  -> "bus error"
          [] signum = 8  -> "floating-point exception"
          [] signum = 11 -> "segmentation violation"
          [] OTHER       -> "?")

\* C10: a caught fault with no trap-early-data set and no relocation entry
\* for the faulting IP returns the "unknown trap at ADDR" message with the
\* faulting address of that fault, whatever the signal.
C10_UnknownTrap ==
    (CaughtSignal /\ caught.early = "None" /\ caught.lookup = "None") =>
        /\ proc = "running"
        /\ ret.kind = "Err"
        /\ ret.payload = BoxString(C10_Message(caught.signum, caught.pair[1]))

\* A SIGSEGV at an instruction without a trap record.
C10_Witness ==
    /\ CaughtSignal
    /\ caught.early = "None"
    /\ caught.lookup = "None"
    /\ caught.signum = SignalNumber.SIGSEGV
    /\ caught.pair = <<255, 13>>
    /\ ret.payload = BoxString("unknown trap at 0xff - segmentation violation")

\* C28: whenever call_protected classifies a caught jump by the
\* (faulting address, instruction pointer) pair, which it does when the
\* trap-early-data slot is empty, that pair was written to CAUGHT_ADDRESSES
\* by the event that raised the jump, never left there by an earlier fault.
C28_PairOfThisJump ==
    (Caught /\ caught.early = "None") => caught.recorded


-----------------------------------------------------------------------------
(* Claims about the middleware chain (SpecChain) *)

RunEnded == pc = "idle" /\ nruns > 0
Stages == 1..Len(hist.fed)
IsPrefix(p, q) == Len(p) <= Len(q) /\ p = SubSeq(q, 1, Len(p))
Inbound == <<Event(nruns, 0, 1)>>

\* What stage i is given to work on: the inbound event for the first
\* stage, what the stage before pushed for the others.
InputOf(i) == IF i = 1 THEN Inbound ELSE hist.pushed[i - 1]

\* C3 (as claimed): in every run with an FCG, the FCG's feed_event is
\* called on exactly the events left in the sink after the last stage.
C3_AllLeftDelivered ==
    (RunEnded /\ fcg /\ hist.stages_done) => hist.delivered = hist.left

\* C3 (amended): in every run with an FCG, the FCG's feed_event is called
\* on the events left in the sink after the last stage, in the order the
\* last stage pushed them, up to and including the first one on which it
\* returns an error, and on all of them when it returns none; across runs,
\* events derived from an earlier inbound event are delivered before events
\* derived from a later one.
C3_DeliveredInOrder ==
    /\ IsPrefix(hist.delivered, hist.left)
    /\ ~fcg => hist.delivered = <<>>
    /\ (RunEnded /\ fcg /\ hist.stages_done /\ hist.failed.at = "none") =>
          (hist.delivered = hist.left /\ result = "Ok")
    /\ (RunEnded /\ hist.failed.at = "fcg") =>
          (hist.delivered # <<>> /\ result = "CodegenError { message: \"bad op\" }")
    /\ (hist.stages_done /\ Stages # {}) => hist.left = hist.pushed[Len(hist.fed)]
    /\ (hist.stages_done /\ Stages = {}) => hist.left = Inbound
    /\ \A i \in 1..Len(hist.delivered) :
          hist.all[Len(hist.all) - Len(hist.delivered) + i] = hist.delivered[i]
    /\ \A i, j \in 1..Len(hist.all) : i < j => hist.all[i].run <= hist.all[j].run
    /\ \A i, j \in 1..Len(hist.all) : i # j => hist.all[i] # hist.all[j]

\* A second run delivered two events the last of two stages pushed, after
\* a first run had delivered its own.
C3_Witness ==
    /\ RunEnded
    /\ nruns = 2
    /\ result = "Ok"
    /\ Len(hist.fed) = 2
    /\ Len(hist.delivered) = 2
    /\ Len(hist.all) > 2

\* C4 (as claimed): the first stage is fed exactly the inbound event and
\* stage i+1 exactly the events stage i pushed.
C4_EveryStageFedAll ==
    RunEnded => \A i \in Stages : hist.fed[i] = InputOf(i)

\* C4 (amended): every stage is fed the events of its input (the inbound
\* event for the first stage, the events stage i pushed for stage i+1) in
\* push order and each once, up to the first feed_event of the run that
\* returns an error, and all of them in a run where no stage returns one;
\* no stage is fed an event pushed by itself or by a later stage.
C4_StagesFedInOrder ==
    /\ \A i \in Stages : IsPrefix(hist.fed[i], InputOf(i))
    /\ \A i \in Stages : \A a, b \in 1..Len(hist.fed[i]) :
          a # b => hist.fed[i][a] # hist.fed[i][b]
    /\ \A i \in Stages : \A a \in 1..Len(hist.fed[i]) :
          (hist.fed[i][a].stage = i - 1 /\ hist.fed[i][a].run = nruns)
    /\ \A i \in Stages : \A a \in 1..Len(hist.pushed[i]) :
          hist.pushed[i][a] = Event(nruns, i, a)
    /\ (hist.stages_done \/ (RunEnded /\ hist.failed.at # "stage")) =>
          \A i \in Stages : hist.fed[i] = InputOf(i)
    /\ (pc = "stage") =>
          \A i \in Stages : i < m => hist.fed[i] = InputOf(i)

\* The second of two stages was fed the two events the first one pushed.
C4_Witness ==
    /\ RunEnded
    /\ result = "Ok"
    /\ Len(hist.fed) = 2
    /\ Len(hist.pushed[1]) = 2
    /\ hist.fed[2] = hist.pushed[1]
    /\ hist.pushed[2] # <<>>

\* C5: when a stage's feed_event returns an error, run returns that error,
\* stringified, at once: the failing stage is fed nothing more, no later
\* stage is fed anything, and the FCG is fed no event of this run.
C5_StageErrorAborts ==
    hist.failed.at = "stage" =>
        LET f == hist.failed.stage IN
        /\ pc = "idle"
        /\ result = "\"limit\""
        /\ hist.fed[f] # <<>>
        /\ IsPrefix(hist.fed[f], InputOf(f))
        /\ \A j \in Stages : j > f => (hist.fed[j] = <<>> /\ hist.pushed[j] = <<>>)
        /\ ~hist.stages_done
        /\ hist.delivered = <<>>
        /\ \A i \in 1..Len(hist.all) : hist.all[i].run # nruns

\* The second of two stages failed, in a run with an FCG, before it was fed
\* everything the first one had pushed.
C5_Witness ==
    /\ hist.failed.at = "stage"
    /\ hist.failed.stage = 2
    /\ fcg
    /\ Len(hist.fed[2]) < Len(hist.pushed[1])
    /\ hist.pushed[2] # <<>>
    /\ result = "\"limit\""

-----------------------------------------------------------------------------
(* Claims about several threads (SpecThreads) *)

\* A thread whose protected closure has started and not yet finished.
InClosure(t) == tframes[t] # <<>>

\* C11: install_sighandler is entered at most once in the process, whatever
\* the threads do, and whenever the protected closure of some call_protected
\* is running on some thread it has been entered exactly once and has
\* completed.
C11_InstalledOnceBeforeClosure ==
    /\ installs <= 1
    /\ \A t \in Threads :
          (InClosure(t) \/ tpc[t] = "setjmp") => (installs = 1 /\ once = "complete")

\* Every thread is inside a protected closure, one of them in a nested one,
\* after a single installation.
C11_Witness ==
    /\ installs = 1
    /\ \A t \in Threads : InClosure(t)
    /\ \E t \in Threads : Len(tframes[t]) >= 2

\* The jump buffer and the captured pair as thread t sees them.
BufferOf(t) == tls_buf[thread_local(t)]
AddressesOf(t) == tls_addr[thread_local(t)]

\* The context of the innermost active call_protected of thread t.
InnermostOf(t) ==
    IF tframes[t] = <<>> THEN ZeroBuffer ELSE SavedContext(t, Len(tframes[t]))

\* Thread t took no step.
Idle(t) == tpc'[t] = tpc[t] /\ tframes'[t] = tframes[t]

\* C19: under every interleaving the jump buffer a thread sees names the
\* innermost active call_protected of that same thread, so a fault on it
\* never unwinds into a frame of another thread or into a frame that has
\* returned; and a step of one thread (entering, leaving, faulting,
\* trigger_trap) leaves the jump buffer and the captured (address, IP) pair
\* of every other thread as they were.
C19_ThreadLocalBarrier ==
    /\ [](/\ tproc \notin {"crossed", "dangling"}
          /\ \A t \in Threads : BufferOf(t) = InnermostOf(t))
    /\ [][\A u \in Threads :
             Idle(u) => (BufferOf(u)' = BufferOf(u) /\ AddressesOf(u)' = AddressesOf(u))]_vars

\* A fault was caught on one thread, which is still inside an outer
\* call_protected, while another thread is inside its own call_protected
\* and has never had a fault.
C19_Witness ==
    \E t, u \in Threads :
        /\ t # u
        /\ AddressesOf(t) # <<0, 0>> /\ InClosure(t) /\ Len(tframes[t]) < MaxNest
        /\ InClosure(u) /\ AddressesOf(u) = <<0, 0>>
        /\ tproc = "running"

-----------------------------------------------------------------------------
(* Claims about the index spaces (SpecIndex) *)

\* The import count of the kind drawn, and the sub-index drawn.
ImportsLen == idx_in.info[idx_in.kind]
SubIndex == [tag |-> idx_in.tag, index |-> idx_in.x]

\* c = a + b as numbers, with no truncation.
IsSum(a, b, c) ==
    LET lo == a.lo + b.lo
        hi == a.hi + b.hi + (lo \div Word)
    IN  hi < Word /\ c = U32(hi, lo % Word)

\* a + b is a u32.
SumFits(a, b) == a.hi + b.hi + ((a.lo + b.lo) \div Word) < Word

\* local_or_import(i) is Import(i) iff i < imports.len(), Local(i - imports.len()) otherwise.
C12_Projection ==
    idx_out.op = "local_or_import" =>
        /\ idx_out.val.tag = "Import" <=> LessThan(idx_in.x, ImportsLen)
        /\ idx_out.val.tag = "Import" => idx_out.val.index = idx_in.x
        /\ idx_out.val.tag # "Import" =>
              idx_out.val.tag = "Local" /\ IsSum(idx_out.val.index, ImportsLen, idx_in.x)

\* convert_up(local_or_import(i)) == i.
C12_UpOfProjection ==
    idx_out.op = "up_of_projection" => idx_out.val = Combined(idx_in.x)

\* C12 as stated: for each kind and every combined index i, local_or_import
\* yields Import(i) iff i < imports.len() and Local(i - imports.len())
\* otherwise; convert_up(local_or_import(i)) == i; and
\* local_or_import(convert_up(x)) == x for every Local sub-index x and every
\* Import sub-index x < imports.len().
C12_InverseBothWays ==
    /\ C12_Projection
    /\ C12_UpOfProjection
    /\ idx_out.op = "projection_of_up" =>
          ((idx_in.tag = "Local" \/ LessThan(idx_in.x, ImportsLen)) => idx_out.val = SubIndex)

\* C12, amended: as above, with local_or_import(convert_up(x)) == x for
\* every Local sub-index x whose sum with imports.len() is still a u32, and
\* for every Import sub-index x < imports.len().
C12_InverseWithinU32 ==
    /\ C12_Projection
    /\ C12_UpOfProjection
    /\ idx_out.op = "projection_of_up" =>
          (((idx_in.tag = "Local" /\ SumFits(idx_in.x, ImportsLen))
            \/ (idx_in.tag = "Import" /\ LessThan(idx_in.x, ImportsLen)))
           => idx_out.val = SubIndex)

\* A large Local sub-index of a module with imports went up and came back.
C12_Witness ==
    /\ idx_out.op = "projection_of_up"
    /\ idx_in.tag = "Local"
    /\ ImportsLen = U32(0, MaxImports)
    /\ idx_in.x.hi = Word - 1
    /\ SumFits(idx_in.x, ImportsLen)
    /\ idx_out.val = SubIndex

-----------------------------------------------------------------------------
(* Claims about MemoryDescriptor (SpecMemory) *)

\* C13: memory_type is decided by (maximum present?, shared) alone:
\* (absent, FALSE) gives Dynamic, (present, FALSE) Static, (present, TRUE)
\* SharedStatic, and (absent, TRUE) is rejected with no MemoryType
\* produced; neither the minimum nor the value of the maximum plays a part.
C13_MemoryTypeTable ==
    mem_out # NoMemoryOutput =>
        LET present == mem_in.maximum # None
        IN  /\ (~present /\ ~mem_in.shared) => mem_out = [outcome |-> "return", ty |-> "Dynamic"]
            /\ ( present /\ ~mem_in.shared) => mem_out = [outcome |-> "return", ty |-> "Static"]
            /\ ( present /\  mem_in.shared) => mem_out = [outcome |-> "return", ty |-> "SharedStatic"]
            /\ (~present /\  mem_in.shared) =>
                  mem_out.outcome = "panic" /\ mem_out.ty \notin {"Dynamic", "Static", "SharedStatic"}

\* memory_type ran on a descriptor whose maximum is present, is zero and is
\* below the minimum.
C13_Witness ==
    /\ mem_out = [outcome |-> "return", ty |-> "Static"]
    /\ mem_in.maximum = Some(0)
    /\ mem_in.minimum = MaxPages

-----------------------------------------------------------------------------
(* Claims about the module code generator (SpecMcg) *)

\* The last operation returned Ok: it was accepted.
Accepted(op) == mcg_ev.op = op /\ mcg_ev.result = "Ok"

\* C14: the generator takes its operations only in the order
\* feed_signatures, feed_function_signatures, feed_import_function /
\* next_function, finalize: next_function or finalize before
\* feed_signatures, finalize before feed_function_signatures, and a second
\* feed_signatures are not accepted.
C14_OutOfOrderRejected ==
    /\ ~(Accepted("next_function") /\ ~mcg_ev.found.signatures)
    /\ ~(Accepted("finalize") /\ ~mcg_ev.found.signatures)
    /\ ~(Accepted("finalize") /\ ~mcg_ev.found.function_signatures)
    /\ ~(Accepted("feed_signatures") /\ mcg_ev.found.signatures)

\* The signature bound to combined index i in the module, in the form an
\* FCG carries it.
SignatureOf(i) ==
    LET sig == MapAt(module_info.signatures, MapAt(module_info.func_assoc, i))
    IN  [params  |-> <<"vmctx">> \o [j \in 1..Len(sig.params) |-> ConvertType(sig.params[j])],
         returns |-> [j \in 1..Len(sig.returns) |-> ConvertType(sig.returns[j])],
         call_conv |-> "default"]

\* C20: with n imported functions, the FCG of the k-th next_function
\* (k from 0) is local function k, carries the signature bound to combined
\* index n + k, and is the one returned; finalize hands the bodies to the
\* backend in that order, the k-th being local function k.
C20_FunctionsInCallOrder ==
    LET n == module_info.imported_functions.lo
    IN  /\ \A k \in 0..(Len(functions) - 1) :
              /\ functions[k + 1].name = k
              /\ functions[k + 1].signature = SignatureOf(n + k)
        /\ Accepted("next_function") =>
              /\ Len(functions) = mcg_ev.found.functions + 1
              /\ mcg_ev.fcg = functions[Len(functions)]
        /\ mcg_ev.op = "finalize" =>
              /\ Len(mcg_ev.func_bodies) = Len(functions)
              /\ \A k \in 0..(Len(functions) - 1) :
                    mcg_ev.func_bodies[k + 1] = functions[k + 1]

\* A module with imports was finalized after MaxFuncs next_function calls
\* that produced different signatures.
C20_Witness ==
    /\ mcg_ev.op = "finalize"
    /\ module_info.imported_functions.lo = MaxImports
    /\ Len(mcg_ev.func_bodies) = MaxFuncs
    /\ mcg_ev.func_bodies[1].signature # mcg_ev.func_bodies[MaxFuncs].signature

\* machine is the machine form of sig: the VMContext parameter, once and first,
\* then the parameters of sig in order, and the returns of sig in order.
IsMachineForm(machine, sig) ==
    /\ Len(machine.params) = Len(sig.params) + 1
    /\ machine.params[1] = "vmctx"
    /\ Cardinality({j \in 1..Len(machine.params) : machine.params[j] = "vmctx"}) = 1
    /\ \A j \in 1..Len(sig.params) : machine.params[j + 1] = ConvertType(sig.params[j])
    /\ Len(machine.returns) = Len(sig.returns)
    /\ \A j \in 1..Len(sig.returns) : machine.returns[j] = ConvertType(sig.returns[j])

C27_ClifMatchesInstalled ==
    signatures.some =>
        /\ Len(clif_signatures) = Len(signatures.v)
        /\ \A i \in 1..Len(signatures.v) :
              clif_signatures[i] = convert_func_sig(signatures.v[i])

-----------------------------------------------------------------------------
(* Claims about StreamingCompiler::compile (SpecCompile) *)

\* Operations of the module code generator, and of the middleware, in the log.
McgOperations ==
    {"new", "feed_signatures", "feed_function_signatures", "feed_import_function",
     "next_function", "finalize"}
MiddlewareOperations == {"middleware_chain_generator", "chain.run"}
Logged(ops) == \E i \in 1..Len(cc_log) : cc_log[i] \in ops
FirstLogged(ops) == CHOOSE i \in 1..Len(cc_log) : cc_log[i] \in ops /\ \A j \in 1..(i - 1) : cc_log[j] \notin ops

\* C15: for Cranelift the validation pass runs, to its end, before the MCG
\* is created or fed; when it fails compile returns ValidationError and no
\* MCG operation and no middleware stage is invoked at all; for LLVM and
\* Singlepass no validation pass is run.
C15_PreValidationFirst ==
    /\ (cc_in.backend = "Cranelift" /\ Logged(McgOperations \cup MiddlewareOperations)) =>
          /\ Logged({"validate"})
          /\ FirstLogged({"validate"}) < FirstLogged(McgOperations \cup MiddlewareOperations)
          /\ cc_in.wasm.error_at = 0
    /\ (cc_in.backend = "Cranelift" /\ cc_in.wasm.error_at # 0 /\ cc_pc = "done") =>
          /\ cc_result = "ValidationError"
          /\ cc_log = <<"validate">>
    /\ cc_in.backend \in {"LLVM", "Singlepass"} => ~Logged({"validate"})

\* compile for Cranelift returned on a binary whose error lies after the
\* first function body.
C15_Witness ==
    /\ cc_in.backend = "Cranelift"
    /\ cc_pc = "done"
    /\ cc_result = "ValidationError"
    /\ cc_in.wasm.funcs >= 1
    /\ cc_in.wasm.error_at > 2 + cc_in.wasm.imports + 2

-----------------------------------------------------------------------------
(* Claims about the loader (SpecLoader) *)

\* C16: the code is copied while the mapping is read+write and the mapping
\* is read+execute before load returns the instance: a call into an
\* instance only ever runs on a read+execute mapping and no byte is written
\* once it is executable; the mapping is unmapped once, when its CodeMemory
\* is dropped, and not before or while a call into it runs.
C16_WriteThenExecute ==
    \A i \in Loads :
        /\ inst[i] = "copied" => code_mem[i].prot = "RW"
        /\ inst[i] \in {"live", "calling"} =>
              code_mem[i].prot = "RX" /\ code_mem[i].unmaps = 0
        /\ ~code_mem[i].late_write
        /\ code_mem[i].unmaps <= 1
        /\ code_mem[i].prot = "unmapped" <=> code_mem[i].unmaps = 1
        /\ inst[i] = "dropped" => code_mem[i].unmaps = 1
        /\ code_mem[i].unmaps = 1 => inst[i] \in {"dropped", "panicked"}

\* One instance was loaded and dropped, and a call runs in another one
\* whose code needed two pages.
C16_Witness ==
    \E i, j \in Loads :
        /\ inst[i] = "dropped" /\ code_mem[i].unmaps = 1
        /\ inst[j] = "calling" /\ code_mem[j].size = 2 * PageSize
        /\ code_mem[j].copied = PageSize + 1

-----------------------------------------------------------------------------
(* Claims about the native types (SpecNative) *)

\* C17: for every i32 and i64 and every bit pattern of f32 and f64,
\* from_native(from_binary(to_binary(to_native(x)))) is x again, value for
\* value and bit for bit; negative i32 and the least and greatest i64 come
\* back from the 64-bit binary form unchanged.
C17_NativeRoundTrip ==
    nat_out.op = "from_native" => nat_out.val = nat_in.x

\* i64::MIN went through the four conversions.
C17_Witness ==
    /\ nat_out.op = "from_native"
    /\ nat_in = [ty |-> "i64", x |-> [neg |-> TRUE, mag |-> MinMagnitude(4)]]
    /\ nat_out.val = nat_in.x

-----------------------------------------------------------------------------
(* Claims about the Interpreter (SpecInterp) *)

\* C18: an Interpreter built from n instructions holds n executables in the
\* order of the list; every run starts from an empty stack, calls the
\* executables in that order, and returns the message of the first one that
\* fails without calling any later one; if none fails it returns the final
\* stack.
C18_RunInOrderUntilError ==
    /\ interpreter = "built" =>
          /\ Len(executable_instructions) = Len(instructions)
          /\ \A i \in 1..Len(instructions) :
                executable_instructions[i] = Executable(instructions[i])
    /\ (rt_pc = 1 /\ rt_executed = <<>>) => rt_stack = <<>>
    /\ \A k \in 1..Len(rt_executed) :
          /\ rt_executed[k].index = k
          /\ rt_executed[k].instruction = instructions[k]
          /\ k < Len(rt_executed) => rt_executed[k].ok
    /\ rt_result.tag = "Err" =>
          /\ rt_executed # <<>>
          /\ ~rt_executed[Len(rt_executed)].ok
          /\ rt_result.message = rt_executed[Len(rt_executed)].message
    /\ rt_result.tag = "Ok" =>
          /\ Len(rt_executed) = Len(instructions)
          /\ \A k \in 1..Len(rt_executed) : rt_executed[k].ok
          /\ rt_result.stack = rt_stack

\* A second run of an interpreter of two instructions returned the error of
\* the first without calling the second.
C18_Witness ==
    /\ rt_runs = 2
    /\ Len(instructions) = 2
    /\ rt_result.tag = "Err"
    /\ Len(rt_executed) = 1
    /\ rt_stack = <<>>

-----------------------------------------------------------------------------
(* Claims about emitted calls (SpecCall) *)

Finished == cg_pc >= 1 /\ (cg_out.kind = "trap" \/ cg_pc = Len(cg_code) + 1)
InBounds == cg_in.callee < Len(cg_in.table)
Entry == cg_in.table[cg_in.callee + 1]

\* C21: the code emitted for call_indirect checks, in this order, that the
\* table index is in bounds, that the entry's function pointer is not zero
\* (else it traps with IndirectCallToNull, also when the sig_id mismatches
\* too), that the entry's sig_id is the expected one (else it traps with
\* BadSignature), and only then calls; the callee is not invoked when a
\* check fails.
C21_IndirectChecksInOrder ==
    (cg_in.kind = "indirect" /\ Finished) =>
        /\ ~InBounds => cg_out.kind = "trap" /\ cg_out.code = "TableOutOfBounds"
        /\ (InBounds /\ Entry.func = Null) =>
               cg_out.kind = "trap" /\ cg_out.code = "IndirectCallToNull"
        /\ (InBounds /\ Entry.func # Null /\ Entry.sig_id # Val("sig", cg_in.sig)) =>
               cg_out.kind = "trap" /\ cg_out.code = "BadSignature"
        /\ (InBounds /\ Entry.func # Null /\ Entry.sig_id = Val("sig", cg_in.sig)) =>
               cg_out.kind = "call" /\ cg_out.target = Entry.func /\ cg_invoked = 1
        /\ cg_out.kind = "trap" => cg_invoked = 0

\* A null entry whose sig_id mismatches as well trapped with IndirectCallToNull.
C21_Witness ==
    /\ cg_in.kind = "indirect"
    /\ Finished
    /\ InBounds
    /\ Entry.func = Null
    /\ Entry.sig_id # Val("sig", cg_in.sig)
    /\ cg_out.code = "IndirectCallToNull"
    /\ cg_invoked = 0

WasmArgs == [k \in 1..cg_in.nargs |-> Val("arg", k)]

\* C22: the first argument of a call is the callee's context: the table
\* entry's vmctx if non-zero, else the caller's VMContext, for an indirect
\* call; the caller's VMContext for a direct call to a local function; the
\* vmctx_ptr of the ImportedFunc record, whose code_ptr is called, for a
\* direct call to an imported function; the Wasm arguments follow in order.
C22_CalleeContextFirst ==
    cg_out.kind = "call" =>
        /\ cg_in.kind = "indirect" =>
               cg_out.args =
                   <<IF Entry.vmctx # Null THEN Entry.vmctx ELSE CallerVmctx>> \o WasmArgs
        /\ (cg_in.kind = "direct" /\ cg_in.callee >= cg_in.imports) =>
               /\ cg_out.args = <<CallerVmctx>> \o WasmArgs
               /\ cg_out.target = Val("local_code", cg_in.callee - cg_in.imports)
        /\ (cg_in.kind = "direct" /\ cg_in.callee < cg_in.imports) =>
               /\ cg_out.args = <<Val("ctx", cg_in.callee + 1)>> \o WasmArgs
               /\ cg_out.target = Val("import_code", cg_in.callee)

\* The second imported function was called with its own context and two
\* arguments.
C22_Witness ==
    /\ cg_out.kind = "call"
    /\ cg_in.kind = "direct"
    /\ cg_in.callee = 1
    /\ cg_in.imports = 2
    /\ cg_in.nargs = 2
    /\ cg_out.args = <<Val("ctx", 2), Val("arg", 1), Val("arg", 2)>>

-----------------------------------------------------------------------------
(* Claims about the function code generator (SpecFcg) *)

\* C24: finalize emits a return carrying the operand stack, in the declared
\* return mode, exactly when the exit path is reachable (the translation
\* state is reachable and the current block is not unreachable); otherwise
\* it emits nothing; in both cases the operand stack is empty afterwards.
C24_ReturnIffReachable ==
    fcg_ev.op = "finalize" =>
        /\ fcg_state.stack = <<>>
        /\ IF fcg_ev.before.state.reachable /\ ~is_unreachable
           THEN fcg_body = Append(fcg_ev.before.body,
                                  [op |-> "return", args |-> fcg_ev.before.state.stack])
           ELSE fcg_body = fcg_ev.before.body

\* finalize found values on the stack of an unreachable exit and emitted no
\* return.
C24_Witness ==
    /\ fcg_ev.op = "finalize"
    /\ ~fcg_ev.before.state.reachable
    /\ fcg_ev.before.state.stack # <<>>
    /\ fcg_body = fcg_ev.before.body
    /\ fcg_state.stack = <<>>

\* C29: feed_event returns Ok and leaves the body, the translation state and
\* next_local as they were for every Event::Internal and for every operator
\* that arrives when the control stack is empty; only operators that arrive
\* while the control stack is non-empty are translated.
C29_IgnoredEventsChangeNothing ==
    (/\ fcg_ev.op = "feed_event"
     /\ \/ fcg_ev.event.kind = "Internal"
        \/ fcg_ev.before.state.control_stack = 0) =>
        /\ fcg_ev.result = "Ok"
        /\ FcgFields = fcg_ev.before

\* A Const arrived after the last End, in reachable code, and was dropped.
C29_Witness ==
    /\ fcg_ev.op = "feed_event"
    /\ fcg_ev.event = [kind |-> "Wasm", what |-> "Const"]
    /\ fcg_ev.before.state.control_stack = 0
    /\ fcg_ev.before.state.reachable
    /\ fcg_body # <<>>
    /\ FcgFields = fcg_ev.before

-----------------------------------------------------------------------------
(* Claims about memory accesses (SpecMemOp) *)

\* The memory an index denotes: imported memories come first.
IsLocalMemory == mo_in.index >= Len(mo_in.info.imported_memories)
SubIndexOfMemory ==
    IF IsLocalMemory THEN mo_in.index - Len(mo_in.info.imported_memories) ELSE mo_in.index
TypeOfMemory ==
    memory_type(IF IsLocalMemory THEN mo_in.info.memories[SubIndexOfMemory + 1]
                ELSE mo_in.info.imported_memories[SubIndexOfMemory + 1]).ty

\* C25: memory.grow and memory.size on memory m call the helper whose
\* namespace is LOCAL iff m is a local memory and IMPORT otherwise, and
\* whose name is the grow (size) variant of the MemoryType of that memory's
\* descriptor; the arguments are the caller's vmctx, the sub-index of m (not
\* the combined index) and, for grow, the delta.
C25_MemoryHelperByType ==
    mo_out.op \in {"memory.grow", "memory.size"} =>
        /\ mo_out.namespace = IF IsLocalMemory THEN "LOCAL_NAMESPACE" ELSE "IMPORT_NAMESPACE"
        /\ mo_out.name =
              CASE TypeOfMemory = "Dynamic" /\ mo_out.op = "memory.grow" -> "DYNAMIC_MEM_GROW"
                [] TypeOfMemory = "Static" /\ mo_out.op = "memory.grow" -> "STATIC_MEM_GROW"
                [] TypeOfMemory = "SharedStatic" /\ mo_out.op = "memory.grow" ->
                       "SHARED_STATIC_MEM_GROW"
                [] TypeOfMemory = "Dynamic" /\ mo_out.op = "memory.size" -> "DYNAMIC_MEM_SIZE"
                [] TypeOfMemory = "Static" /\ mo_out.op = "memory.size" -> "STATIC_MEM_SIZE"
                [] TypeOfMemory = "SharedStatic" /\ mo_out.op = "memory.size" ->
                       "SHARED_STATIC_MEM_SIZE"
        /\ mo_out.args =
              IF mo_out.op = "memory.grow"
              THEN <<CallerVmctx, Val("iconst", SubIndexOfMemory), Val("arg", 1)>>
              ELSE <<CallerVmctx, Val("iconst", SubIndexOfMemory)>>

\* memory.grow on the second local memory of a module that imports a memory
\* of another type.
C25_Witness ==
    /\ mo_out.op = "memory.grow"
    /\ Len(mo_in.info.imported_memories) = 1
    /\ mo_in.index = 2
    /\ mo_out.namespace = "LOCAL_NAMESPACE"
    /\ mo_out.args[2] = Val("iconst", 1)
    /\ TypeOfMemory = "SharedStatic"
    /\ memory_type(mo_in.info.imported_memories[1]).ty = "Dynamic"

\* C26: in the preamble make_heap builds, the load of the memory's base
\* pointer is readonly iff the memory is Static or SharedStatic, and mutable
\* iff it is Dynamic, for local and imported memories alike.
C26_BaseReadonlyIffStatic ==
    mo_out.op = "make_heap" =>
        (mo_out.readonly <=> TypeOfMemory \in {"Static", "SharedStatic"})

-----------------------------------------------------------------------------
(* Claims about LocalInstance::call (SpecLocalCall) *)

\* Number of words the first k arguments take.
RECURSIVE WordsBefore(_)
WordsBefore(k) ==
    IF k = 0 THEN 0
    ELSE WordsBefore(k - 1) + (IF lc_in.args[k].ty = "V128" THEN 2 ELSE 1)

=============================================================================
